---- MODULE Spec2Model ----
(***************************************************************************)
(* A model of sfaira's estimator layer (sfaira/estimators/keras.py):       *)
(* the data matrix adapter and feature remapper (_prepare_data_matrix),    *)
(* the partitioner inside train(), the label encoder (_get_celltype_out)   *)
(* and the streaming dataset builder (_get_dataset) of both estimators.    *)
(*                                                                         *)
(* Observation and feature indices are 0-based values, as in the source;   *)
(* TLA+ sequences are 1-based, so row i of a matrix m is m.a[i + 1].       *)
(***************************************************************************)
EXTENDS Integers, Sequences, FiniteSets, TLC

VARIABLES
    \* ---- the annotated data object and the genome container ----
    data_X,           \* self.data.X: matrix [nrow, ncol, a]
    data_ids,         \* self.data.var["ensembl"].values
    x_type,           \* type of self.data.X: "ndarray", "spmatrix" or "other"
    filename,         \* self.data.filename: "None" (in memory) or a path (backed)
    mapped_features,  \* self.data.uns['mapped_features']: "absent", or a genome name
    ensembl,          \* topology_container.genome_container.ensembl (the reference)
    \* ---- one call of _prepare_data_matrix ----
    arg_idx,          \* the idx argument (None or a sequence of observations)
    chunk,            \* the chunk size of the column copy (`step` in the source)
    empty_clears,     \* whether the sparse library clears the targets of an all-zero assignment
    dm_ret,           \* what the call returned or raised, and what it printed
    \* ---- the cell type universe and one call of _get_celltype_out ----
    labels,           \* self.data.obs["cell_ontology_class"].values
    ids,              \* self.ids: the ordered class identifiers
    ontology,         \* self.ontology: grouping name -> (alias -> leaf classes)
    max_class_weight, \* self.max_class_weight
    ct_ret,           \* what the call returned (weights, y) or raised
    \* ---- the estimator and one call of _get_dataset ----
    est_class,        \* "embedding" (EstimatorKerasEmbedding) or "celltype" (EstimatorKerasCelltype)
    model_type,       \* self.model_type
    ds_args,          \* the arguments of the call, idx apart (that is arg_idx)
    ds_ret,           \* what the call returned or raised
    \* ---- the estimator's training state and calls of train() ----
    rng,              \* the state of the global generator np.random
    model,            \* self.model: "None", "initialised" or "compiled"
    obs,              \* self.data.obs: column name -> values (cell_ontology_class is labels)
    idx_test,         \* self.idx_test
    idx_eval,         \* self.idx_eval
    idx_train,        \* self.idx_train
    train_hyperparam, \* self.train_hyperparam
    obs_train,        \* self.obs_train
    obs_eval,         \* self.obs_eval
    obs_test,         \* self.obs_test
    history,          \* self.history
    train_args,       \* the arguments of the last call of train()
    train_ret,        \* how the last call of train() ended and what it did on the way
    foreign_draw,     \* np.random was drawn from outside train() since the last call
    repeated,         \* the last call repeated the one before it, a foreign draw in between
    \* ---- one call of _prepare_sf ----
    sf_x,             \* the argument: an array [shape, flat]
    sf_ret,           \* what the call returned or raised
    \* ---- pretrained weights and the weights cache ----
    model_id,         \* self.model_id, a string (strings are sequences of pieces)
    model_dir,        \* self.model_dir, a string
    dir_given,        \* the model_dir the estimator was constructed with
    md5,              \* self.md5: the checksum supplied, or "None"
    cache_path,       \* self.cache_path, a string
    fs,               \* the files that exist: resolved path -> digest of the content
    remote,           \* what the server answers for the .h5 and the sharded URL
    model_weights,    \* the weights of self.model.training_model, named by their digest
    w_ret,            \* how the last call on weights ended and what it did on the way
    w_calls,          \* calls of load_pretrained_weights so far
    saved,            \* save_weights_to_cache ran since the last clearing init_model
    \* ---- the same call of _get_dataset on the in-memory source ----
    ds_mem,           \* what the call returned or raised before the source was reopened backed
    \* ---- one iterator over a stream that _get_dataset returned ----
    stream,           \* the dataset the iterator runs over
    it_state,         \* "none", "open", "ended" (end of sequence) or the error raised
    it_pos,           \* elements the generator has yielded in its current run
    it_buf,           \* the shuffle buffer: positions of elements of the stream
    it_log,           \* the batches delivered in this pass, each a sequence of positions
    it_tick,          \* parity of the number of batches delivered
    \* ---- one run of training_model.fit() inside train() ----
    fit_run,          \* its arguments, its position in the epoch loop and its counters
    pc                \* position of the process: "start", "done" or "trained"

remapVars == <<data_X, data_ids, x_type, filename, mapped_features, ensembl,
               arg_idx, chunk, empty_clears, dm_ret>>
labelVars == <<labels, ids, ontology, max_class_weight, ct_ret>>
dsVars == <<est_class, model_type, ds_args, ds_ret>>
trainVars == <<rng, model, obs, idx_test, idx_eval, idx_train, train_hyperparam,
               obs_train, obs_eval, obs_test, history, train_args, train_ret,
               foreign_draw, repeated>>
sfVars == <<sf_x, sf_ret>>
wVars == <<model_id, model_dir, dir_given, md5, cache_path, fs, remote,
           model_weights, w_ret, w_calls, saved>>
eqVars == <<ds_mem>>
itVars == <<stream, it_state, it_pos, it_buf, it_log, it_tick>>
fitVars == <<fit_run>>
restVars == <<sfVars, wVars, eqVars, itVars, fitVars>>
vars == <<remapVars, labelVars, dsVars, trainVars, restVars, pc>>

----------------------------------------------------------------------------
(* Bounds of the model and constants of the program.                       *)

\* largest number of input features (columns of data.X)
MaxFeatures == 3

\* number of observations (rows of data.X)
NObs == 3

\* the chunk size of the source
step == 2000

\* topology_container.genome_container.genome: the name of the reference genome
genome == "Homo_sapiens_GRCh38_97"

\* None, for an argument that is otherwise a sequence of integers
None == <<-1>>

\* NaN, for a matrix entry that is otherwise a count
NaN == -1

Range(s) == {s[i] : i \in DOMAIN s}

\* np.arange(0, n)
Arange(n) == [k \in 1..n |-> k - 1]

\* s[i:j] of a Python sequence (0-based, end exclusive, clipped to the length)
PySlice(s, i, j) ==
    LET lo == IF i < Len(s) THEN i ELSE Len(s)
        hi == IF j < Len(s) THEN j ELSE Len(s)
    IN  [k \in 1..(IF hi > lo THEN hi - lo ELSE 0) |-> s[lo + k]]

----------------------------------------------------------------------------
(* Matrices: a record [nrow, ncol, a] with a[r][c] the entry of row r - 1   *)
(* and column c - 1. A sparse matrix stores its nonzero entries; an entry  *)
(* 0 is an entry that is not stored.                                       *)

\* scipy.sparse.csc_matrix((n, m)): the empty matrix
ZeroMatrix(n, m) == [nrow |-> n, ncol |-> m, a |-> [r \in 1..n |-> [c \in 1..m |-> 0]]]

\* x[idx, :]
RowSlice(x, idx) ==
    [nrow |-> Len(idx), ncol |-> x.ncol, a |-> [k \in 1..Len(idx) |-> x.a[idx[k] + 1]]]

\* x[:, cols]
ColSlice(x, cols) ==
    [nrow |-> x.nrow, ncol |-> Len(cols),
     a |-> [r \in 1..x.nrow |-> [k \in 1..Len(cols) |-> x.a[r][cols[k] + 1]]]]

\* x[:, i:j]
ColRange(x, i, j) == ColSlice(x, PySlice(Arange(x.ncol), i, j))

\* column j of x, as a sequence over the rows
Column(x, j) == [r \in 1..x.nrow |-> x.a[r][j + 1]]

\* number of stored entries
Nnz(x) == Cardinality({<<r, c>> \in (1..x.nrow) \X (1..x.ncol) : x.a[r][c] # 0})

\* self.data.X[np.isnan(self.data.X)] = 0
NanToZero(x) ==
    [x EXCEPT !.a = [r \in 1..x.nrow |-> [c \in 1..x.ncol |->
                        IF x.a[r][c] = NaN THEN 0 ELSE x.a[r][c]]]]

----------------------------------------------------------------------------
(* The feature remapper, _prepare_data_matrix lines 201-231.               *)

\* np.where([x in ensembl for x in data_ids])[0]: the positions of the input
\* identifiers that occur in the reference, ascending
RECURSIVE KeptFrom(_, _, _)
KeptFrom(var_ids, ref, p) ==
    IF p >= Len(var_ids) THEN <<>>
    ELSE IF var_ids[p + 1] \in Range(ref) THEN <<p>> \o KeptFrom(var_ids, ref, p + 1)
    ELSE KeptFrom(var_ids, ref, p + 1)

IdxFeatureKept(var_ids, ref) == KeptFrom(var_ids, ref, 0)

\* list.index(g): the first position of g
ListIndex(lst, g) ==
    (CHOOSE i \in 1..Len(lst) : lst[i] = g /\ \A j \in 1..(i - 1) : lst[j] # g) - 1

\* np.array([ensembl.index(x) for x in data_ids[idx_feature_kept]])
IdxFeatureMap(var_ids, ref) ==
    LET kept == IdxFeatureKept(var_ids, ref)
    IN  [k \in 1..Len(kept) |-> ListIndex(ref, var_ids[kept[k] + 1])]

\* x_new[:, targets] = src for a compressed sparse x_new and a sparse src with
\* one column per target. The library returns at once when src stores nothing
\* (in the builds where `clears` is false); otherwise it zeroes every targeted
\* entry and then writes the stored entries of src, and where several columns of
\* src go to the same target the last stored entry of a row is the one kept.
SetColumns(x_new, targets, src, clears) ==
    IF Nnz(src) = 0 /\ ~clears THEN x_new
    ELSE [x_new EXCEPT !.a = [r \in 1..x_new.nrow |-> [c \in 1..x_new.ncol |->
            LET hits == {k \in 1..Len(targets) : targets[k] = c - 1}
                stored == {k \in hits : src.a[r][k] # 0}
            IN  IF hits = {} THEN x_new.a[r][c]
                ELSE IF stored = {} THEN 0
                ELSE src.a[r][CHOOSE k \in stored : \A l \in stored : l <= k]]]]

\* for i in range(0, len(idx_feature_map), step):
\*     x_new[:, idx_feature_map[i:i + step]] = x[:, i:i + step]
RECURSIVE ChunkLoop(_, _, _, _, _, _)
ChunkLoop(x_new, fmap, x, st, i, clears) ==
    IF i >= Len(fmap) THEN x_new
    ELSE ChunkLoop(SetColumns(x_new, PySlice(fmap, i, i + st), ColRange(x, i, i + st), clears),
                   fmap, x, st, i + st, clears)

\* the value of the loop variable i after the loop: the last start of a chunk
LastStart(n, st) == ((n - 1) \div st) * st

\* lines 216-222: the copy of the kept columns to their target positions
CopyColumns(x_new, fmap, x, st, clears) ==
    IF st < Len(fmap)
    THEN LET looped == ChunkLoop(x_new, fmap, x, st, 0, clears)
             i == LastStart(Len(fmap), st)
         IN  SetColumns(looped, PySlice(fmap, i + st, Len(fmap)),
                        ColRange(x, i + st, x.ncol), clears)
    ELSE SetColumns(x_new, fmap, x, clears)

\* lines 201-231, from the row-sliced matrix x: the remapped matrix and the
\* two pairs of counts the call prints
RemapFeatures(x, var_ids, ref, st, clears) ==
    LET idx_feature_kept == IdxFeatureKept(var_ids, ref)
        idx_feature_map == IdxFeatureMap(var_ids, ref)
        ngenes == Len(ref)
        xk == ColSlice(x, idx_feature_kept)
        x_new == CopyColumns(ZeroMatrix(xk.nrow, ngenes), idx_feature_map, xk, st, clears)
    IN  [x |-> x_new,
         printed |-> << <<Len(idx_feature_kept), xk.ncol>>,
                        <<Len(idx_feature_kept), ngenes>> >>]

\* _prepare_data_matrix(idx): what it returns or raises, and data.X afterwards
\* (a dense data.X has its NaN entries overwritten in place).
PrepareDataMatrix(X, var_ids, xtype, fname, mapped, ref, idx_in, st, clears) ==
    LET idx == IF idx_in = None THEN Arange(X.nrow) ELSE idx_in
    IN  IF fname # "None"
        THEN [status |-> "ValueError: backed", x |-> ZeroMatrix(0, 0), printed |-> <<>>, X |-> X]
        ELSE IF xtype \notin {"ndarray", "spmatrix"}
        THEN [status |-> "ValueError: data type", x |-> ZeroMatrix(0, 0), printed |-> <<>>, X |-> X]
        ELSE LET X1 == IF xtype = "ndarray" THEN NanToZero(X) ELSE X
                 x == RowSlice(X1, idx)
             IN  IF mapped = genome
                 THEN [status |-> "ok", x |-> x, printed |-> <<>>, X |-> X1]
                 ELSE LET r == RemapFeatures(x, var_ids, ref, st, clears)
                      IN  [status |-> "ok", x |-> r.x, printed |-> r.printed, X |-> X1]

----------------------------------------------------------------------------
(* The label encoder, _get_celltype_out.                                   *)

\* str.lower() on the class names of the model
Lower(x) ==
    CASE x = "Unknown" -> "unknown"
      [] x = "Adam" -> "adam"
      [] OTHER -> x

\* lines 913-916: the number of columns of the label matrix
TypeClasses(cls) ==
    IF \E j \in DOMAIN cls : Lower(cls[j]) = "unknown" THEN Len(cls) ELSE Len(cls) + 1

\* lookup_ontology=["names"], the default every caller uses
lookup_ontology == <<"names">>

\* dict.keys()
Keys(d) == DOMAIN d

\* an empty dict
EmptyDict == [k \in {} |-> {}]

\* (mutant) every grouping of the ontology is consulted, not only those looked up
InOntologyAnyGrouping(ont, lookup, label) == \E o \in DOMAIN ont : label \in Keys(ont[o])

\* line 921: the label is an alias in some consulted grouping
InOntology(ont, lookup, label) == \E o \in DOMAIN lookup : label \in Keys(ont[lookup[o]])

\* (mutant) the class position is taken as a 1-based column
LabelRowShifted(cls, ont, lookup, label) ==
    [c \in 1..TypeClasses(cls) |->
        IF label \in Range(cls)
        THEN IF c = ListIndex(cls, label) THEN 1 ELSE 0
        ELSE IF \E o \in DOMAIN lookup :
                    /\ label \in Keys(ont[lookup[o]])
                    /\ c <= Len(cls)
                    /\ cls[c] \in ont[lookup[o]][label]
             THEN 1 ELSE 0]

\* (mutant) only the first matching leaf class of an alias is set
LabelRowFirstLeaf(cls, ont, lookup, label) ==
    [c \in 1..TypeClasses(cls) |->
        IF label \in Range(cls)
        THEN IF c - 1 = ListIndex(cls, label) THEN 1 ELSE 0
        ELSE IF \E o \in DOMAIN lookup :
                    /\ label \in Keys(ont[lookup[o]])
                    /\ c <= Len(cls)
                    /\ cls[c] \in ont[lookup[o]][label]
                    /\ \A b \in 1..(c - 1) : cls[b] \notin ont[lookup[o]][label]
             THEN 1 ELSE 0]

\* lines 919-929: the row of one observation
LabelRow(cls, ont, lookup, label) ==
    [c \in 1..TypeClasses(cls) |->
        IF label \in Range(cls)
        THEN IF c - 1 = ListIndex(cls, label) THEN 1 ELSE 0
        ELSE IF \E o \in DOMAIN lookup :
                    /\ label \in Keys(ont[lookup[o]])
                    /\ c <= Len(cls)
                    /\ cls[c] \in ont[lookup[o]][label]
             THEN 1 ELSE 0]

\* line 920-922: the observation's label is in neither the classes nor a grouping
UnknownLabel(cls, ont, lookup, label) ==
    label \notin Range(cls) /\ ~InOntology(ont, lookup, label)

RECURSIVE SumSeq(_)
SumSeq(s) == IF s = <<>> THEN 0 ELSE Head(s) + SumSeq(Tail(s))

RECURSIVE ProdSeq(_)
ProdSeq(s) == IF s = <<>> THEN 1 ELSE Head(s) * ProdSeq(Tail(s))

RECURSIVE Gcd(_, _)
Gcd(a, b) == IF b = 0 THEN a ELSE Gcd(b, a % b)

\* a positive rational in lowest terms, as <<numerator, denominator>>
Ratio(a, b) == <<a \div Gcd(a, b), b \div Gcd(a, b)>>

\* class weights that take each row divided by its row sum in the product with
\* freq as well
ClassWeightsNormalised(y, cap) ==
    LET n == Len(y)
        k == [i \in 1..n |-> SumSeq(y[i])]
    IN  IF \E i \in 1..n : k[i] = 0 THEN [i \in 1..n |-> <<NaN, 1>>]
        ELSE LET P == ProdSeq(k)
                 ncol == IF n = 0 THEN 0 ELSE Len(y[1])
                 fnum == [c \in 1..ncol |-> SumSeq([i \in 1..n |-> y[i][c] * (P \div k[i])])]
                 dot == [i \in 1..n |-> SumSeq([c \in 1..ncol |-> y[i][c] * fnum[c]])]
             IN  [i \in 1..n |->
                    IF n * P * k[i] > cap * dot[i] THEN <<cap, 1>>
                    ELSE Ratio(n * P * k[i], dot[i])]

\* lines 931-937: the observation weights of a label matrix y, each a rational
\* <<numerator, denominator>>. A row without a class is 0/0 in line 931, and
\* the NaN it gives spreads through the column means to every weight.
ClassWeights(y, cap) ==
    LET n == Len(y)
        k == [i \in 1..n |-> SumSeq(y[i])]
    IN  IF \E i \in 1..n : k[i] = 0 THEN [i \in 1..n |-> <<NaN, 1>>]
        ELSE LET P == ProdSeq(k)
                 \* freq[c] = fnum[c] / (n * P)
                 ncol == IF n = 0 THEN 0 ELSE Len(y[1])
                 fnum == [c \in 1..ncol |-> SumSeq([i \in 1..n |-> y[i][c] * (P \div k[i])])]
                 dot == [i \in 1..n |-> SumSeq([c \in 1..ncol |-> y[i][c] * fnum[c]])]
             IN  [i \in 1..n |->
                    IF n * P > cap * dot[i] THEN <<cap, 1>> ELSE Ratio(n * P, dot[i])]

\* _get_celltype_out(idx): (weights, y), or the ValueError of line 922
GetCelltypeOut(lab, cls, ont, cap, idx_in) ==
    LET idx == IF idx_in = None THEN Arange(Len(lab)) ELSE idx_in
    IN  IF \E i \in DOMAIN idx : UnknownLabel(cls, ont, lookup_ontology, lab[idx[i] + 1])
        THEN [status |-> "ValueError: label not found", y |-> <<>>, weights |-> <<>>]
        ELSE LET y == [i \in 1..Len(idx) |->
                          LabelRow(cls, ont, lookup_ontology, lab[idx[i] + 1])]
             IN  [status |-> "ok", y |-> y, weights |-> ClassWeights(y, cap)]

----------------------------------------------------------------------------
(* The size factor and the streaming dataset builder, _get_dataset of both *)
(* estimators. A dataset is given by the structure declared to             *)
(* tf.data.Dataset.from_generator and the elements its generator yields in *)
(* one pass; eval and predict return arrays, given by their rows.          *)

\* x.sum() of a row: NaN if an entry is NaN
RowTotal(row) == IF \E c \in DOMAIN row : row[c] = NaN THEN NaN ELSE SumSeq(row)

\* the divisor of line 243
SfScale == 10000

\* np.log(t / 1e4 + 1e-10), kept as the term it is: the total, the divisor and
\* the offset under the logarithm
Ln(t) == [sum |-> t, scale |-> SfScale, eps |-> "1e-10"]

\* an array of any rank: its shape and its entries in row-major order
Ndim(x) == Len(x.shape)

\* x.sum(axis=1) of a rank-2 array
RowSums(x) ==
    [r \in 1..x.shape[1] |->
        RowTotal([c \in 1..x.shape[2] |-> x.flat[(r - 1) * x.shape[2] + c]])]

\* a size factor computer that takes every array as one vector
PrepareSfFlat(x) == [status |-> "ok", sf |-> <<Ln(RowTotal(x.flat))>>]

\* _prepare_sf(x) of an array of any rank
PrepareSfArray(x) ==
    IF Ndim(x) = 2 THEN [status |-> "ok", sf |-> [r \in 1..x.shape[1] |-> Ln(RowSums(x)[r])]]
    ELSE IF Ndim(x) = 1 THEN [status |-> "ok", sf |-> <<Ln(RowTotal(x.flat))>>]
    ELSE [status |-> "ValueError: x.shape > 2", sf |-> <<>>]

\* _prepare_sf(x) of a matrix (rank 2)
PrepareSf(x) == [r \in 1..x.nrow |-> Ln(RowTotal(x.a[r]))]

\* self.model_type[:3] == "vae"
IsVae(mtype) == mtype \in {"vae", "vaeiaf", "vaevamp"}

\* the structures of an element
Nested == "((x, sf), (x, sf))"
Plain == "((x, sf), x)"
Triple == "(x, y, w)"

\* _get_output_dim(n_features, model_type): the declared structure
GetOutputDim(n_features, mt) ==
    [struct |-> IF mt = "vae" THEN Nested ELSE Plain, n_features |-> n_features, n_classes |-> 0]

\* the weight 1 and the weight of an element without one
One == <<1, 1>>
NoWeight == <<0, 1>>

\* an element of an embedding dataset, and of a classifier dataset
EmbElem(struct, x, sf) == [struct |-> struct, x |-> x, sf |-> sf, y |-> <<>>, w |-> NoWeight]
CtElem(struct, x, y, w) == [struct |-> struct, x |-> x, sf |-> Ln(0), y |-> y, w |-> w]

NoDeclared == [struct |-> "none", n_features |-> 0, n_classes |-> 0]

\* the call raised
DsError(status) ==
    [status |-> status, kind |-> "none", declared |-> NoDeclared, gen |-> "none",
     elems |-> <<>>, repeat |-> FALSE, buffer_size |-> 0]

\* the call returned a tf.data.Dataset; gen is "ok", or the error its generator
\* raises when it is first pulled
DsDataset(declared, gen, elems, repeat, buffer_size) ==
    [status |-> "ok", kind |-> "dataset", declared |-> declared, gen |-> gen,
     elems |-> elems, repeat |-> repeat, buffer_size |-> buffer_size]

\* the call returned arrays, row i of each forming elems[i]
DsArrays(elems) ==
    [status |-> "ok", kind |-> "arrays", declared |-> NoDeclared, gen |-> "none",
     elems |-> elems, repeat |-> FALSE, buffer_size |-> 0]

Min(a, b) == IF a < b THEN a ELSE b

\* np.sort(idx) and np.argsort(idx) of distinct entries
Rank(idx, p) == Cardinality({q \in DOMAIN idx : idx[q] < idx[p]})
ArgSort(idx) == [k \in 1..Len(idx) |-> (CHOOSE p \in DOMAIN idx : Rank(idx, p) = k - 1) - 1]
Sort(idx) == [k \in 1..Len(idx) |-> idx[ArgSort(idx)[k] + 1]]

\* x = self.data.X[np.sort(idx), :]; x = x[np.argsort(idx), :]
BackedRows(X, idx) == RowSlice(RowSlice(X, Sort(idx)), ArgSort(idx))

\* self._prepare_data_matrix(idx=idx) on the data of the estimator
DataMatrix(idx) ==
    PrepareDataMatrix(data_X, data_ids, x_type, filename, mapped_features, ensembl, idx,
                      chunk, empty_clears)

\* the generators over a backed source: for i in idx: self.data.X[i, :]
BackedEmbElems(struct, idx) ==
    [k \in 1..Len(idx) |->
        EmbElem(struct, data_X.a[idx[k] + 1], Ln(RowTotal(data_X.a[idx[k] + 1])))]

\* the generators over the prepared matrix x: for i in range(x.shape[0])
MemoryEmbElems(struct, x) ==
    [k \in 1..x.nrow |-> EmbElem(struct, x.a[k], PrepareSf(x)[k])]

\* EstimatorKerasEmbedding._get_dataset
EmbeddingGetDataset(idx, a) ==
    LET mt == IF IsVae(model_type) THEN "vae" ELSE "ae"
    IN  IF a.mode = "train" \/ a.mode = "train_val"
        THEN IF filename = "None"
             THEN LET r == DataMatrix(idx)
                      gen_nested == IF a.mode = "train" THEN mt = "vae"
                                    ELSE mt = "vae" \/ a.for_compute_gradients_inputs
                  IN  IF r.status # "ok" THEN DsError(r.status)
                      ELSE DsDataset(GetOutputDim(r.x.ncol, mt), "ok",
                                     MemoryEmbElems(IF gen_nested THEN Nested ELSE Plain, r.x),
                                     a.mode = "train",
                                     IF a.mode = "train"
                                     THEN Min(data_X.nrow, a.shuffle_buffer_size)
                                     ELSE a.shuffle_buffer_size)
             ELSE DsDataset(GetOutputDim(data_X.ncol, mt),
                            IF idx = None THEN "TypeError: NoneType is not iterable" ELSE "ok",
                            IF idx = None THEN <<>>
                            ELSE BackedEmbElems(IF mt = "vae" THEN Nested ELSE Plain, idx),
                            a.mode = "train",
                            IF a.mode = "train"
                            THEN Min(data_X.nrow, a.shuffle_buffer_size)
                            ELSE a.shuffle_buffer_size)
        ELSE IF a.mode = "eval" \/ a.mode = "predict"
        THEN LET struct == IF IsVae(model_type) THEN Nested ELSE Plain
             IN  IF filename = "None"
                 THEN LET r == DataMatrix(idx)
                      IN  IF r.status # "ok" THEN DsError(r.status)
                          ELSE DsArrays(MemoryEmbElems(struct, r.x))
                 ELSE LET x == BackedRows(data_X, IF idx = None THEN Arange(data_X.nrow) ELSE idx)
                      IN  DsArrays(MemoryEmbElems(struct, x))
        ELSE DsError("ValueError: mode not recognised")

\* the classifier's generators: for i, ii in enumerate(idx): x[i, :], y[i, :], weights[i]
CtElemsShifted(rows, y, weights) ==
    [k \in 1..Len(y) |-> CtElem(Triple, rows[k], y[Len(y) + 1 - k], weights[k])]
CtElems(rows, y, weights) ==
    [k \in 1..Len(y) |-> CtElem(Triple, rows[k], y[k], weights[k])]

\* EstimatorKerasCelltype._get_dataset
CelltypeGetDataset(idx, a) ==
    IF a.mode \in {"train", "train_val", "eval"}
    THEN LET ct == GetCelltypeOut(labels, ids, ontology, max_class_weight, idx)
             weights == IF a.weighted THEN ct.weights ELSE [k \in DOMAIN ct.weights |-> One]
         IN  IF ct.status # "ok" THEN DsError(ct.status)
             ELSE IF a.mode = "eval"
             THEN IF filename = "None"
                  THEN LET r == DataMatrix(idx)
                       IN  IF r.status # "ok" THEN DsError(r.status)
                           ELSE DsArrays(CtElems(r.x.a, ct.y, weights))
                  ELSE IF idx = None THEN DsError("AxisError: np.sort(None)")
                  ELSE DsArrays(CtElems(BackedRows(data_X, idx).a, ct.y, weights))
             ELSE IF filename = "None"
                  THEN LET r == DataMatrix(idx)
                       IN  IF r.status # "ok" THEN DsError(r.status)
                           ELSE DsDataset([struct |-> Triple, n_features |-> r.x.ncol,
                                           n_classes |-> TypeClasses(ids)],
                                          IF idx = None THEN "TypeError: NoneType is not iterable"
                                          ELSE "ok",
                                          IF idx = None THEN <<>> ELSE CtElems(r.x.a, ct.y, weights),
                                          a.mode = "train",
                                          Min(r.x.nrow, a.shuffle_buffer_size))
                  \* x is not bound on this path when line 978 or 1012 reads x.shape[0]
                  ELSE DsError("UnboundLocalError: x")
    ELSE IF a.mode = "predict"
    THEN IF filename = "None"
         THEN LET r == DataMatrix(idx)
              IN  IF r.status # "ok" THEN DsError(r.status)
                  ELSE DsArrays([k \in 1..r.x.nrow |->
                                    CtElem("(x, None, None)", r.x.a[k], <<>>, NoWeight)])
         ELSE IF idx = None THEN DsError("AxisError: np.sort(None)")
         ELSE DsArrays([k \in 1..Len(idx) |->
                           CtElem("(x, None, None)", BackedRows(data_X, idx).a[k], <<>>, NoWeight)])
    ELSE DsError("ValueError: mode not recognised")

\* self._get_dataset(idx, ...) of the estimator at hand
GetDataset(idx, a) ==
    IF est_class = "embedding" THEN EmbeddingGetDataset(idx, a) ELSE CelltypeGetDataset(idx, a)

----------------------------------------------------------------------------
(* train(): the partition of the observations into test, eval and train,  *)
(* the checks on the partitions, and the compile, dataset and fit steps.   *)
(* np.random is a generator with RngStates states; which numbers it draws  *)
(* is immaterial, that a draw depends on the state and advances it is not. *)

\* number of states of the generator
RngStates == 4

\* the state after one draw
NextRng(state) == (5 * state + 3) % RngStates

\* a seeding that leaves the state as it is
NoReseed(state, s) == state

\* np.random.seed(s): the state is set from s alone
Reseed(state, s) == s % RngStates

Swap(x, i, j) == [x EXCEPT ![i] = x[j], ![j] = x[i]]

RECURSIVE Shuffle(_, _, _)
\* np.random.shuffle: for i in reversed(range(1, n)): j = draw in 0..i; swap x[i], x[j]
Shuffle(x, i, state) ==
    IF i < 1 THEN [x |-> x, rng |-> state]
    ELSE LET s2 == NextRng(state)
         IN  Shuffle(Swap(x, i + 1, (s2 % (i + 1)) + 1), i - 1, s2)

\* np.random.permutation(n)
Permutation(n, state) == Shuffle(Arange(n), n - 1, state)

\* np.random.choice(a=a, size=size, replace=False): a[permutation(len(a))[:size]]
Choice(a, size, state) ==
    IF size > Len(a)
    THEN [status |-> "ValueError: Cannot take a larger sample than population",
          idx |-> <<>>, rng |-> state]
    ELSE LET perm == Permutation(Len(a), state)
         IN  [status |-> "ok", idx |-> [k \in 1..size |-> a[perm.x[k] + 1]], rng |-> perm.rng]

\* round(p / q) of Python: to the nearest integer, a tie to the even one
Round(p, q) ==
    LET fl == p \div q
        r == p % q
    IN  IF 2 * r < q THEN fl
        ELSE IF 2 * r > q THEN fl + 1
        ELSE IF fl % 2 = 0 THEN fl ELSE fl + 1

\* a list comprehension that keeps everything
KeepAll(a, b) == a

\* np.array([x for x in a if x not in b])
NotIn(a, b) == SelectSeq(a, LAMBDA x : x \notin Range(b))

\* self.data.obs[k].values
ObsColumn(k) == IF k = "cell_ontology_class" THEN labels ELSE obs[k]

\* an in_test that is met by any one field (logical_or across the fields)
InTestAny(items, i) ==
    \E n \in DOMAIN items :
        IF items[n].is_list THEN ObsColumn(items[n].k)[i + 1] \in Range(items[n].v)
        ELSE ObsColumn(items[n].k)[i + 1] = items[n].v[1]

\* in_test of observation i after the loop over test_split.items()
InTest(items, i) ==
    \A n \in DOMAIN items :
        IF items[n].is_list THEN ObsColumn(items[n].k)[i + 1] \in Range(items[n].v)
        ELSE ObsColumn(items[n].k)[i + 1] = items[n].v[1]

\* np.where(in_test)[0]
Where(n, items) == SelectSeq(Arange(n), LAMBDA i : InTest(items, i))

\* lines 375-403: stage counts what was assigned: 0 nothing, 1 idx_test, 3 all three
Partition(n, test_split, validation_split, state) ==
    LET s0 == Reseed(state, 1)
        all_idx == Arange(n)
        t == IF test_split.kind = "float"
             THEN Choice(all_idx, Round(n * test_split.frac[1], test_split.frac[2]), s0)
             ELSE IF test_split.kind = "dict"
             THEN [status |-> "ok", idx |-> Where(n, test_split.items), rng |-> s0]
             ELSE [status |-> "ValueError: type of test_split not recognized",
                   idx |-> <<>>, rng |-> s0]
        idx_train_eval == NotIn(all_idx, t.idx)
        e == Choice(idx_train_eval,
                    Round(Len(idx_train_eval) * validation_split[1], validation_split[2]),
                    Reseed(t.rng, 1))
    IN  IF t.status # "ok"
        THEN [status |-> t.status, stage |-> 0, idx_test |-> <<>>, idx_eval |-> <<>>,
              idx_train |-> <<>>, rng |-> t.rng]
        ELSE IF e.status # "ok"
        THEN [status |-> e.status, stage |-> 1, idx_test |-> t.idx, idx_eval |-> <<>>,
              idx_train |-> <<>>, rng |-> e.rng]
        ELSE [status |-> "ok", stage |-> 3, idx_test |-> t.idx, idx_eval |-> e.idx,
              idx_train |-> NotIn(idx_train_eval, e.idx), rng |-> e.rng]

EvalEmpty == "ValueError: The evaluation dataset is empty."
TrainEmpty == "ValueError: The train dataset is empty."
TestEmpty == "Test partition is empty!"

\* checks that only warn
CheckWarnOnly(t, e, tr) ==
    [warnings |-> (IF Len(t) = 0 THEN <<TestEmpty>> ELSE <<>>)
                  \o (IF Len(e) = 0 THEN <<EvalEmpty>> ELSE <<>>)
                  \o (IF Len(tr) = 0 THEN <<TrainEmpty>> ELSE <<>>),
     error |-> "ok"]

\* lines 405-411: the warning and the errors on empty partitions
CheckPartitions(t, e, tr) ==
    [warnings |-> IF Len(t) = 0 THEN <<TestEmpty>> ELSE <<>>,
     error |-> IF Len(e) = 0 THEN EvalEmpty
               ELSE IF Len(tr) = 0 THEN TrainEmpty ELSE "ok"]

Optimizers == {"adam", "sgd", "rmsprop", "adagrad"}

Max(a, b) == IF a > b THEN a ELSE b

\* self.train_hyperparam before the first call, and as a call sets it
NoHyper ==
    [set |-> FALSE, optimizer |-> "None", validation_split |-> <<0, 1>>, batch_size |-> 0,
     validation_batch_size |-> 0, max_steps_per_epoch |-> 0, max_validation_steps |-> 0,
     weighted |-> FALSE]
HyperKept(a) == NoHyper
Hyper(a) ==
    [set |-> TRUE, optimizer |-> a.optimizer, validation_split |-> a.validation_split,
     batch_size |-> a.batch_size, validation_batch_size |-> a.validation_batch_size,
     max_steps_per_epoch |-> a.max_steps_per_epoch,
     max_validation_steps |-> a.max_validation_steps, weighted |-> a.weighted]

\* self.data.obs.iloc[idx, :].copy(), and the attribute before it is assigned
ObsRow(i) == [index |-> i, organ |-> obs.organ[i + 1], cell_ontology_class |-> labels[i + 1]]
Iloc(idx) == [k \in 1..Len(idx) |-> ObsRow(idx[k])]
NoFrame == <<[index |-> -1, organ |-> "None", cell_ontology_class |-> "None"]>>

\* self.history before a fit, and the fit that ran
NoHistory == [set |-> FALSE, steps_per_epoch |-> 0, validation_steps |-> 0]
FitUncapped(a, n_train, n_eval) ==
    [set |-> TRUE,
     steps_per_epoch |-> Max(n_train \div a.batch_size, 1),
     validation_steps |->
         Min(Max(n_eval \div a.validation_batch_size, 1), a.max_validation_steps)]
Fit(a, n_train, n_eval) ==
    [set |-> TRUE,
     steps_per_epoch |-> Min(Max(n_train \div a.batch_size, 1), a.max_steps_per_epoch),
     validation_steps |->
         Min(Max(n_eval \div a.validation_batch_size, 1), a.max_validation_steps)]

\* the arguments train() passes to _get_dataset
TrainDsArgs(a, mode, idx) ==
    [mode |-> mode,
     batch_size |-> IF mode = "train" THEN a.batch_size ELSE a.validation_batch_size,
     weighted |-> a.weighted, for_compute_gradients_inputs |-> FALSE,
     shuffle_buffer_size |-> Min(a.shuffle_buffer_size, Len(idx))]

\* what iterating a stream raises: its generator's error, or the mismatch of
\* the declared structure and an element
StreamStatus(ds) ==
    IF ds.gen # "ok" THEN ds.gen
    ELSE IF \E i \in DOMAIN ds.elems : ds.elems[i].struct # ds.declared.struct
    THEN "TypeError: generator yielded an element of another structure"
    ELSE "ok"

\* a dataset that train() did not get to build
NotBuilt == DsError("not built")

\* the dataset train() builds for the partition idx once the checks chk passed
TrainDataset(a, mode, p, chk, idx) ==
    IF p.status = "ok" /\ chk.error = "ok" /\ model # "None"
    THEN GetDataset(idx, TrainDsArgs(a, mode, idx))
    ELSE NotBuilt

\* one run of train() with the partition p, the outcome chk of the checks and
\* the datasets as they were computed on the way: how the run ends, the step
\* it reached, its warnings and the collaborators it called
TrainCall(a, p, chk, train_dataset, eval_dataset) ==
    LET fit == IF StreamStatus(train_dataset) # "ok" THEN StreamStatus(train_dataset)
               ELSE StreamStatus(eval_dataset)
        R(status, reached, warnings, trace) ==
            [status |-> status, reached |-> reached, warnings |-> warnings, trace |-> trace]
    IN  IF Lower(a.optimizer) \notin Optimizers
        THEN R("AssertionError", "optimizer", <<>>, <<>>)
        ELSE IF p.status # "ok" THEN R(p.status, "partition", <<>>, <<>>)
        ELSE IF chk.error # "ok" THEN R(chk.error, "check", chk.warnings, <<>>)
        ELSE IF model = "None"
        THEN R("AttributeError: 'NoneType' object has no attribute 'training_model'",
               "compile", chk.warnings, <<"compile">>)
        ELSE IF train_dataset.status # "ok"
        THEN R(train_dataset.status, "train_dataset", chk.warnings,
               <<"compile", "get_dataset">>)
        ELSE IF eval_dataset.status # "ok"
        THEN R(eval_dataset.status, "eval_dataset", chk.warnings,
               <<"compile", "get_dataset", "get_dataset">>)
        ELSE R(fit, IF fit = "ok" THEN "done" ELSE "fit", chk.warnings,
               <<"compile", "get_dataset", "get_dataset", "fit">>)

----------------------------------------------------------------------------
(* The inputs of the remapper: identifier lists of every length up to      *)
(* MaxFeatures over identifiers of which "zz" is in no reference, with     *)
(* repeats; references that order the identifiers differently; and data    *)
(* whose entry at (r, c) is a marker naming its row and column, so that    *)
(* a copy to the wrong place is seen, stored according to a pattern.       *)

GeneIds == {"g1", "g2", "g3", "zz"}
Genomes == {<<"g1", "g2", "g3">>, <<"g3", "g1">>}
Patterns == {"full", "even", "odd", "nan"}
ChunkSizes == {1, 2, step}

Marker(r, c) == 10 * (r + 1) + c + 1

Entry(p, r, c) ==
    CASE p = "full" -> Marker(r, c)
      [] p = "even" -> IF (r + c) % 2 = 0 THEN Marker(r, c) ELSE 0
      [] p = "odd"  -> IF (r + c) % 2 = 1 THEN Marker(r, c) ELSE 0
      [] p = "nan"  -> IF (r + c) % 2 = 0 THEN NaN ELSE Marker(r, c)

\* the n x m data matrix of pattern p
PatternMatrix(p, n, m) ==
    [nrow |-> n, ncol |-> m, a |-> [r \in 1..n |-> [c \in 1..m |-> Entry(p, r - 1, c - 1)]]]

\* the idx arguments tried: all observations (None), one, all in descending
\* order, and all rotated by one (1, 2, .., 0)
IdxChoices == {None, <<NObs - 1>>, [k \in 1..NObs |-> NObs - k], [k \in 1..NObs |-> k % NObs]}

\* the estimator is not used
DsIdle ==
    /\ est_class = "embedding"
    /\ model_type = "ae"
    /\ ds_args = [mode |-> "none", batch_size |-> 0, weighted |-> TRUE,
                  for_compute_gradients_inputs |-> FALSE, shuffle_buffer_size |-> 0]
    /\ ds_ret = DsError("none")

\* train() is not called
NoTrainArgs ==
    [optimizer |-> "None", test_split |-> [kind |-> "None", frac |-> <<0, 1>>, items |-> <<>>],
     validation_split |-> <<0, 1>>, batch_size |-> 0, validation_batch_size |-> 0,
     max_steps_per_epoch |-> 0, max_validation_steps |-> 0, shuffle_buffer_size |-> 0,
     weighted |-> FALSE]
NoTrainRet ==
    [status |-> "none", reached |-> "none", warnings |-> <<>>, trace |-> <<>>,
     partitioned |-> FALSE]
Constructed ==
    /\ idx_test = None
    /\ idx_eval = None
    /\ idx_train = None
    /\ train_hyperparam = NoHyper
    /\ obs_train = NoFrame
    /\ obs_eval = NoFrame
    /\ obs_test = NoFrame
    /\ history = NoHistory
    /\ train_args = NoTrainArgs
    /\ train_ret = NoTrainRet
    /\ foreign_draw = FALSE
    /\ repeated = FALSE
\* _prepare_sf is not called
SfIdle ==
    /\ sf_x = [shape |-> <<0>>, flat |-> <<>>]
    /\ sf_ret = [status |-> "none", sf |-> <<>>]

\* the estimator's own attributes apart from self.model
EstimatorFresh ==
    /\ rng = 0
    /\ obs = [organ |-> <<>>]
    /\ Constructed

\* self.model is None where self.model.training_model is read
NoModel == "AttributeError: 'NoneType' object has no attribute 'training_model'"

\* a call on weights has not happened
NoCall == [op |-> "none", status |-> "none", trace |-> <<>>, fn |-> None, clear |-> FALSE,
           fs |-> {}, weights |-> "None"]
\* no weights are loaded, saved or cached
WeightsIdle ==
    /\ model_id = <<>>
    /\ model_dir = <<>>
    /\ dir_given = <<>>
    /\ md5 = "None"
    /\ cache_path = <<>>
    /\ fs = {}
    /\ remote = [base |-> <<>>, h5 |-> "HTTPError", shard |-> "HTTPError"]
    /\ model_weights = "None"
    /\ w_ret = NoCall
    /\ w_calls = 0
    /\ saved = FALSE

\* what the scenario at hand leaves alone
\* no stream is being iterated
ItIdle ==
    /\ stream = [ds |-> DsError("none"), batch_size |-> 0, mode |-> "none"]
    /\ it_state = "none"
    /\ it_pos = 0
    /\ it_buf = <<>>
    /\ it_log = <<>>
    /\ it_tick = FALSE

\* fit() is not running
NoFit ==
    [state |-> "none", epochs |-> 0, patience |-> 0, n_train |-> 0, n_eval |-> 0,
     batch_size |-> 0, validation_batch_size |-> 0, max_steps_per_epoch |-> 0,
     max_validation_steps |-> 0, steps_per_epoch |-> 0, validation_steps |-> 0,
     epoch |-> 0, step |-> 0, vstep |-> 0, pulled |-> 0, vpulled |-> 0, wait |-> 0]
FitIdle == fit_run = NoFit

RestIdle == SfIdle /\ WeightsIdle /\ ds_mem = DsError("none") /\ ItIdle /\ FitIdle

TrainIdle ==
    /\ rng = 0
    /\ model = "None"
    /\ obs = [organ |-> <<>>]
    /\ Constructed

\* the cell type universe is not used
LabelIdle ==
    /\ labels = <<>>
    /\ ids = <<>>
    /\ ontology = [names |-> EmptyDict, ontology_ids |-> EmptyDict]
    /\ max_class_weight = 1000
    /\ ct_ret = [status |-> "none", y |-> <<>>, weights |-> <<>>]

InitRemap ==
    /\ pc = "start"
    /\ TrainIdle
    /\ RestIdle
    /\ LabelIdle
    /\ DsIdle
    /\ ensembl \in Genomes
    /\ \E n \in 0..MaxFeatures : data_ids \in [1..n -> GeneIds]
    /\ \E p \in Patterns : data_X = PatternMatrix(p, NObs, Len(data_ids))
    /\ arg_idx \in IdxChoices
    /\ dm_ret = [status |-> "none", x |-> ZeroMatrix(0, 0), printed |-> <<>>]
    /\ \/ /\ x_type \in {"ndarray", "spmatrix"}
          /\ filename = "None"
          /\ mapped_features = "absent"
          /\ chunk \in ChunkSizes
          /\ empty_clears \in BOOLEAN
       \/ /\ x_type \in {"ndarray", "spmatrix", "other"}
          /\ filename \in {"None", "backed.h5ad"}
          /\ mapped_features \in {"absent", genome, "Mus_musculus_GRCm38_97"}
          /\ chunk = step
          /\ empty_clears = TRUE
          /\ arg_idx = None

\* one call self._prepare_data_matrix(idx)
CallPrepareDataMatrix ==
    /\ pc = "start"
    /\ LET r == PrepareDataMatrix(data_X, data_ids, x_type, filename, mapped_features,
                                  ensembl, arg_idx, chunk, empty_clears)
       IN  /\ dm_ret' = [status |-> r.status, x |-> r.x, printed |-> r.printed]
           /\ data_X' = r.X
    /\ pc' = "done"
    /\ UNCHANGED <<data_ids, x_type, filename, mapped_features, ensembl, arg_idx, chunk,
                   empty_clears>>
    /\ UNCHANGED <<labelVars, dsVars, trainVars, restVars>>

NextRemap == CallPrepareDataMatrix

SpecRemap == InitRemap /\ [][NextRemap]_vars

----------------------------------------------------------------------------
(* The label encoder on its own: class lists with and without an "unknown" *)
(* class, groupings with aliases of one, two and no known leaf class, and  *)
(* every assignment of the labels below to the observations.               *)

ClassLists == {<<"T cell", "B cell">>, <<"B cell", "NK cell", "T cell", "Unknown">>}

Ontologies ==
    { [names |-> EmptyDict, ontology_ids |-> EmptyDict],
      [names |-> ("lymphocyte" :> {"T cell", "B cell"}) @@ ("myeloid" :> {"Monocyte"}),
       ontology_ids |-> ("CL:0000542" :> {"T cell", "B cell"})],
      [names |-> ("lymphocyte" :> {"NK cell", "T cell", "B cell"}) @@ ("myeloid" :> {"NK cell"}),
       ontology_ids |-> EmptyDict] }

LabelUniverse == {"T cell", "B cell", "lymphocyte", "myeloid", "Martian cell", "CL:0000542"}

\* the data object and the reference are not used
RemapIdle ==
    /\ data_X = ZeroMatrix(0, 0)
    /\ data_ids = <<>>
    /\ x_type = "ndarray"
    /\ filename = "None"
    /\ mapped_features = "absent"
    /\ ensembl = <<>>
    /\ chunk = step
    /\ empty_clears = TRUE
    /\ dm_ret = [status |-> "none", x |-> ZeroMatrix(0, 0), printed |-> <<>>]

InitLabel ==
    /\ pc = "start"
    /\ TrainIdle
    /\ RestIdle
    /\ RemapIdle
    /\ DsIdle
    /\ arg_idx \in IdxChoices
    /\ labels \in [1..NObs -> LabelUniverse]
    /\ ids \in ClassLists
    /\ ontology \in Ontologies
    /\ max_class_weight \in {2, 1000}
    /\ ct_ret = [status |-> "none", y |-> <<>>, weights |-> <<>>]

\* one call self._get_celltype_out(idx)
CallGetCelltypeOut ==
    /\ pc = "start"
    /\ ct_ret' = GetCelltypeOut(labels, ids, ontology, max_class_weight, arg_idx)
    /\ pc' = "done"
    /\ UNCHANGED <<remapVars, dsVars, trainVars, restVars, labels, ids, ontology,
                   max_class_weight>>

NextLabel == CallGetCelltypeOut

SpecLabel == InitLabel /\ [][NextLabel]_vars

----------------------------------------------------------------------------
(* The dataset builder on its own: both estimators with every model type,  *)
(* every mode and one that does not exist, in-memory and backed data, with *)
(* the observations requested in several orders.                           *)

EmbeddingTypes == {"vae", "vaeiaf", "vaevamp", "ae", "linear"}
CelltypeTypes == {"mlp", "marker"}
Modes == {"train", "train_val", "eval", "predict", "bogus"}

\* label columns: all labels classes; one an alias; the last one unknown
LabelColumns ==
    { [k \in 1..NObs |-> IF k % 2 = 1 THEN "T cell" ELSE "B cell"],
      [k \in 1..NObs |-> IF k = 1 THEN "lymphocyte" ELSE "B cell"],
      [k \in 1..NObs |-> IF k = NObs THEN "Martian cell" ELSE "T cell"] }

InitDataset ==
    /\ pc = "start"
    /\ TrainIdle
    /\ RestIdle
    /\ ensembl = <<"g1", "g2", "g3">>
    /\ data_ids \in {<<"g1", "g2", "g3">>, <<"g3", "zz", "g1">>}
    /\ \E p \in {"full", "even"} : data_X = PatternMatrix(p, NObs, Len(data_ids))
    /\ x_type = "ndarray"
    /\ filename \in {"None", "backed.h5ad"}
    /\ mapped_features = "absent"
    /\ chunk = step
    /\ empty_clears = TRUE
    /\ dm_ret = [status |-> "none", x |-> ZeroMatrix(0, 0), printed |-> <<>>]
    /\ arg_idx \in IdxChoices
    /\ labels \in LabelColumns
    /\ ids = <<"T cell", "B cell">>
    /\ ontology = [names |-> ("lymphocyte" :> {"T cell", "B cell"}), ontology_ids |-> EmptyDict]
    /\ max_class_weight = 1000
    /\ ct_ret = [status |-> "none", y |-> <<>>, weights |-> <<>>]
    /\ \/ est_class = "embedding" /\ model_type \in EmbeddingTypes
       \/ est_class = "celltype" /\ model_type \in CelltypeTypes
    /\ \E m \in Modes, w \in BOOLEAN, g \in BOOLEAN, b \in {2, 10000000} :
          /\ est_class = "embedding" => w
          /\ est_class = "celltype" => ~g
          /\ ds_args = [mode |-> m, batch_size |-> 2, weighted |-> w,
                        for_compute_gradients_inputs |-> g, shuffle_buffer_size |-> b]
    /\ ds_ret = DsError("none")

\* whether the call gets to self._prepare_data_matrix
ReachesDataMatrix(idx, a) ==
    /\ filename = "None"
    /\ \/ est_class = "embedding" /\ a.mode \in {"train", "train_val", "eval", "predict"}
       \/ est_class = "celltype" /\ a.mode = "predict"
       \/ /\ est_class = "celltype" /\ a.mode \in {"train", "train_val", "eval"}
          /\ GetCelltypeOut(labels, ids, ontology, max_class_weight, idx).status = "ok"

\* one call self._get_dataset(idx, batch_size, mode, ...)
CallGetDataset ==
    /\ pc = "start"
    /\ ds_ret' = GetDataset(arg_idx, ds_args)
    /\ data_X' = IF ReachesDataMatrix(arg_idx, ds_args) THEN DataMatrix(arg_idx).X ELSE data_X
    /\ pc' = "done"
    /\ UNCHANGED <<data_ids, x_type, filename, mapped_features, ensembl, arg_idx, chunk,
                   empty_clears, dm_ret>>
    /\ UNCHANGED <<labelVars, trainVars, restVars, est_class, model_type, ds_args>>

NextDataset == CallGetDataset

SpecDataset == InitDataset /\ [][NextDataset]_vars

----------------------------------------------------------------------------
(* evaluate() and evaluate_any(idx) on an estimator that was not trained:   *)
(* self.idx_test is None.                                                  *)

InitEval ==
    /\ pc = "start"
    /\ EstimatorFresh
    /\ model \in {"None", "compiled"}
    /\ RestIdle
    /\ ensembl = <<"g1", "g2", "g3">>
    /\ data_ids \in {<<"g1", "g2", "g3">>, <<"g3", "zz", "g1">>}
    /\ \E p \in {"full", "even"} : data_X = PatternMatrix(p, NObs, Len(data_ids))
    /\ x_type = "ndarray"
    /\ filename \in {"None", "backed.h5ad"}
    /\ mapped_features = "absent"
    /\ chunk = step
    /\ empty_clears = TRUE
    /\ dm_ret = [status |-> "none", x |-> ZeroMatrix(0, 0), printed |-> <<>>]
    /\ arg_idx \in IdxChoices
    /\ labels \in LabelColumns
    /\ ids = <<"T cell", "B cell">>
    /\ ontology = [names |-> ("lymphocyte" :> {"T cell", "B cell"}), ontology_ids |-> EmptyDict]
    /\ max_class_weight = 1000
    /\ ct_ret = [status |-> "none", y |-> <<>>, weights |-> <<>>]
    /\ \/ est_class = "embedding" /\ model_type \in {"vae", "ae"}
       \/ est_class = "celltype" /\ model_type \in {"mlp"}
    /\ \E w \in BOOLEAN :
          /\ est_class = "embedding" => w
          /\ ds_args = [mode |-> "none", batch_size |-> 0, weighted |-> w,
                        for_compute_gradients_inputs |-> FALSE, shuffle_buffer_size |-> 0]
    /\ ds_ret = DsError("none")

\* x, y(, w) = self._get_dataset(idx=idx, batch_size=None, mode='eval') and then
\* self.model.training_model.evaluate(x=x, y=y): the arrays evaluate ran on
Evaluate(idx, a, mdl) ==
    LET d == GetDataset(idx, a)
    IN  IF d.status = "ok" /\ mdl = "None" THEN DsError(NoModel) ELSE d

\* the arguments evaluate and evaluate_any pass to _get_dataset
EvalArgs == [ds_args EXCEPT !.mode = "eval"]

\* one call self.evaluate(): idx is self.idx_test
CallEvaluate ==
    /\ pc = "start"
    /\ ds_args' = EvalArgs
    /\ ds_ret' = Evaluate(idx_test, EvalArgs, model)
    /\ data_X' = IF ReachesDataMatrix(idx_test, EvalArgs) THEN DataMatrix(idx_test).X
                 ELSE data_X
    /\ pc' = "evaluate"
    /\ UNCHANGED <<data_ids, x_type, filename, mapped_features, ensembl, arg_idx, chunk,
                   empty_clears, dm_ret>>
    /\ UNCHANGED <<labelVars, trainVars, restVars, est_class, model_type>>

\* one call self.evaluate_any(idx)
CallEvaluateAny ==
    /\ pc = "start"
    /\ ds_args' = EvalArgs
    /\ ds_ret' = Evaluate(arg_idx, EvalArgs, model)
    /\ data_X' = IF ReachesDataMatrix(arg_idx, EvalArgs) THEN DataMatrix(arg_idx).X
                 ELSE data_X
    /\ pc' = "evaluate_any"
    /\ UNCHANGED <<data_ids, x_type, filename, mapped_features, ensembl, arg_idx, chunk,
                   empty_clears, dm_ret>>
    /\ UNCHANGED <<labelVars, trainVars, restVars, est_class, model_type>>

NextEval == CallEvaluate \/ CallEvaluateAny

SpecEval == InitEval /\ [][NextEval]_vars

----------------------------------------------------------------------------
(* The same call of _get_dataset on the two kinds of source: first on the  *)
(* data in memory, then on the same data written to disk and opened        *)
(* backed. The feature space of the data is the reference.                 *)

InitEquiv ==
    /\ pc = "start"
    /\ TrainIdle
    /\ SfIdle
    /\ WeightsIdle
    /\ ensembl = <<"g1", "g2", "g3">>
    /\ data_ids = ensembl
    /\ \E p \in {"full", "even"} : data_X = PatternMatrix(p, NObs, Len(data_ids))
    /\ x_type = "ndarray"
    /\ filename = "None"
    /\ mapped_features = "absent"
    /\ chunk = step
    /\ empty_clears = TRUE
    /\ dm_ret = [status |-> "none", x |-> ZeroMatrix(0, 0), printed |-> <<>>]
    /\ arg_idx \in IdxChoices \ {None}
    /\ labels \in LabelColumns
    /\ ids = <<"T cell", "B cell">>
    /\ ontology = [names |-> ("lymphocyte" :> {"T cell", "B cell"}), ontology_ids |-> EmptyDict]
    /\ max_class_weight = 1000
    /\ ct_ret = [status |-> "none", y |-> <<>>, weights |-> <<>>]
    /\ \/ est_class = "embedding" /\ model_type \in EmbeddingTypes
       \/ est_class = "celltype" /\ model_type \in CelltypeTypes
    /\ \E m \in Modes, w \in BOOLEAN, g \in BOOLEAN, b \in {2, 10000000} :
          /\ est_class = "embedding" => w
          /\ est_class = "celltype" => ~g
          /\ ds_args = [mode |-> m, batch_size |-> 2, weighted |-> w,
                        for_compute_gradients_inputs |-> g, shuffle_buffer_size |-> b]
    /\ ds_ret = DsError("none")
    /\ ds_mem = DsError("none")
    /\ ItIdle
    /\ FitIdle

\* the call self._get_dataset(idx, batch_size, mode, ...) on the source in memory
CallInMemory ==
    /\ pc = "start"
    /\ filename = "None"
    /\ ds_mem' = GetDataset(arg_idx, ds_args)
    /\ data_X' = IF ReachesDataMatrix(arg_idx, ds_args) THEN DataMatrix(arg_idx).X ELSE data_X
    /\ pc' = "memory"
    /\ UNCHANGED <<data_ids, x_type, filename, mapped_features, ensembl, arg_idx, chunk,
                   empty_clears, dm_ret>>
    /\ UNCHANGED <<labelVars, dsVars, trainVars, sfVars, wVars, itVars, fitVars>>

\* the data are written to disk and opened backed: X is as it was
Reopen ==
    /\ pc = "memory"
    /\ filename' = "backed.h5ad"
    /\ pc' = "reopened"
    /\ UNCHANGED <<data_X, data_ids, x_type, mapped_features, ensembl, arg_idx, chunk,
                   empty_clears, dm_ret>>
    /\ UNCHANGED <<labelVars, dsVars, trainVars, restVars>>

\* the same call on the backed source
CallBacked ==
    /\ pc = "reopened"
    /\ ds_ret' = GetDataset(arg_idx, ds_args)
    /\ pc' = "done"
    /\ UNCHANGED <<remapVars, labelVars, trainVars, restVars, est_class, model_type, ds_args>>

NextEquiv == CallInMemory \/ Reopen \/ CallBacked

SpecEquiv == InitEquiv /\ [][NextEquiv]_vars

----------------------------------------------------------------------------
(* Calls of train() on one estimator, any number of them, with draws from  *)
(* np.random by other code before and between them.                        *)

\* largest number of observations of the data trained on
MaxObs == 3

Float(n, d) == [kind |-> "float", frac |-> <<n, d>>, items |-> <<>>]
Dict(items) == [kind |-> "dict", frac |-> <<0, 1>>, items |-> items]
Item(k, is_list, v) == [k |-> k, is_list |-> is_list, v |-> v]

\* test_split: fractions, and predicates on the metadata, one that no
\* observation meets among them
TestSplits ==
    { Float(0, 1), Float(1, 4), Float(1, 2), Float(1, 1),
      Dict(<<Item("organ", FALSE, <<"lung">>)>>),
      Dict(<<Item("organ", TRUE, <<"lung", "liver">>),
             Item("cell_ontology_class", FALSE, <<"T cell">>)>>),
      Dict(<<Item("organ", FALSE, <<"kidney">>)>>) }

ValidationSplits == {<<0, 1>>, <<1, 2>>}

Args(optimizer, test_split, validation_split) ==
    [optimizer |-> optimizer, test_split |-> test_split, validation_split |-> validation_split,
     batch_size |-> 2, validation_batch_size |-> 2, max_steps_per_epoch |-> 20,
     max_validation_steps |-> 10, shuffle_buffer_size |-> 10000, weighted |-> TRUE]

\* the calls tried: every test_split with every validation_split, and then
\* a validation_split of 1 and of 1/4, the empty predicate, a test_split of
\* another type, splits above 1, and optimizers in capitals and unknown
TrainArgs ==
    {Args("adam", t, v) : t \in TestSplits, v \in ValidationSplits}
        \cup {Args("adam", Float(0, 1), <<1, 1>>), Args("adam", Float(1, 4), <<1, 4>>),
              Args("adam", Float(3, 4), <<1, 2>>),
              Args("adam", Dict(<<>>), <<1, 2>>),
              Args("adam", [kind |-> "str", frac |-> <<0, 1>>, items |-> <<>>], <<1, 2>>),
              Args("adam", Float(5, 4), <<1, 2>>), Args("adam", Float(0, 1), <<5, 4>>),
              Args("Adam", Float(1, 4), <<1, 2>>), Args("bogus", Float(1, 4), <<1, 2>>)}

\* the estimators trained: class, model type, where the data lives, whether
\* init_model() has run, and whether the last label is outside the universe
Estimators ==
    { [c |-> "embedding", mt |-> "vae", file |-> "None", model |-> "initialised", martian |-> FALSE],
      [c |-> "embedding", mt |-> "ae", file |-> "backed.h5ad", model |-> "initialised", martian |-> FALSE],
      [c |-> "embedding", mt |-> "linear", file |-> "None", model |-> "None", martian |-> FALSE],
      [c |-> "celltype", mt |-> "mlp", file |-> "None", model |-> "initialised", martian |-> TRUE],
      [c |-> "celltype", mt |-> "marker", file |-> "backed.h5ad", model |-> "initialised", martian |-> FALSE] }

Organs == <<"lung", "liver", "brain">>

InitTraining(estimators, sizes) ==
    /\ pc = "start"
    /\ ensembl = <<"g1", "g2", "g3">>
    /\ data_ids = <<"g1", "g2", "g3">>
    /\ x_type = "ndarray"
    /\ mapped_features = "absent"
    /\ chunk = step
    /\ empty_clears = TRUE
    /\ dm_ret = [status |-> "none", x |-> ZeroMatrix(0, 0), printed |-> <<>>]
    /\ arg_idx = None
    /\ ids = <<"T cell", "B cell">>
    /\ ontology = [names |-> ("lymphocyte" :> {"T cell", "B cell"}), ontology_ids |-> EmptyDict]
    /\ max_class_weight = 1000
    /\ ct_ret = [status |-> "none", y |-> <<>>, weights |-> <<>>]
    /\ ds_args = [mode |-> "none", batch_size |-> 0, weighted |-> TRUE,
                  for_compute_gradients_inputs |-> FALSE, shuffle_buffer_size |-> 0]
    /\ ds_ret = DsError("none")
    /\ \E n \in sizes, e \in estimators :
          /\ data_X = PatternMatrix("full", n, 3)
          /\ labels = [k \in 1..n |-> IF e.martian /\ k = n THEN "Martian cell"
                                      ELSE IF k % 2 = 1 THEN "T cell" ELSE "B cell"]
          /\ obs = [organ |-> [k \in 1..n |-> Organs[((k - 1) % 3) + 1]]]
          /\ est_class = e.c
          /\ model_type = e.mt
          /\ filename = e.file
          /\ model = e.model
    /\ rng \in 0..(RngStates - 1)
    /\ Constructed
    /\ RestIdle

InitTrain == InitTraining(Estimators, 1..MaxObs)

\* one call estimator.train(optimizer, lr, ..., validation_split, test_split, ...);
\* each step's result is bound once, in the order the code computes them
Train ==
    \E a \in TrainArgs :
    \E p \in {Partition(data_X.nrow, a.test_split, a.validation_split, rng)} :
    \E chk \in {CheckPartitions(p.idx_test, p.idx_eval, p.idx_train)} :
    \E train_dataset \in {TrainDataset(a, "train", p, chk, p.idx_train)} :
    \E eval_dataset \in {IF train_dataset.status = "ok"
                          THEN TrainDataset(a, "train_val", p, chk, p.idx_eval)
                          ELSE NotBuilt} :
    \E r \in {TrainCall(a, p, chk, train_dataset, eval_dataset)} :
        LET past(steps) == r.reached \in steps
            seeded == ~past({"optimizer"})
            assigned == past({"check", "compile", "train_dataset", "eval_dataset", "fit", "done"})
            framed == past({"compile", "train_dataset", "eval_dataset", "fit", "done"})
            compiled == past({"train_dataset", "eval_dataset", "fit", "done"})
        IN  /\ train_args' = a
            /\ train_ret' = [status |-> r.status, reached |-> r.reached,
                             warnings |-> r.warnings, trace |-> r.trace,
                             partitioned |-> assigned]
            /\ train_hyperparam' = IF seeded THEN Hyper(a) ELSE train_hyperparam
            /\ rng' = IF seeded THEN p.rng ELSE rng
            /\ idx_test' = IF seeded /\ p.stage >= 1 THEN p.idx_test ELSE idx_test
            /\ idx_eval' = IF assigned THEN p.idx_eval ELSE idx_eval
            /\ idx_train' = IF assigned THEN p.idx_train ELSE idx_train
            /\ obs_train' = IF framed THEN Iloc(p.idx_train) ELSE obs_train
            /\ obs_eval' = IF framed THEN Iloc(p.idx_eval) ELSE obs_eval
            /\ obs_test' = IF framed THEN Iloc(p.idx_test) ELSE obs_test
            /\ model' = IF compiled THEN "compiled" ELSE model
            /\ history' = IF past({"done"}) THEN Fit(a, Len(p.idx_train), Len(p.idx_eval))
                          ELSE history
            /\ data_X' = IF \/ /\ compiled
                                /\ ReachesDataMatrix(p.idx_train,
                                                     TrainDsArgs(a, "train", p.idx_train))
                             \/ /\ past({"eval_dataset", "fit", "done"})
                                /\ ReachesDataMatrix(p.idx_eval,
                                                     TrainDsArgs(a, "train_val", p.idx_eval))
                          THEN DataMatrix(None).X ELSE data_X
            /\ repeated' = (/\ pc = "trained" /\ a = train_args /\ foreign_draw
                            /\ train_ret.partitioned /\ assigned)
            /\ foreign_draw' = FALSE
            /\ pc' = "trained"
            /\ UNCHANGED <<data_ids, x_type, filename, mapped_features, ensembl, arg_idx,
                           chunk, empty_clears, dm_ret>>
            /\ UNCHANGED <<labelVars, dsVars, restVars, obs>>

\* other code draws from np.random
OtherDraw ==
    /\ rng' = NextRng(rng)
    /\ foreign_draw' = TRUE
    /\ UNCHANGED <<remapVars, labelVars, dsVars, restVars, pc, model, obs, idx_test, idx_eval,
                   idx_train, train_hyperparam, obs_train, obs_eval, obs_test, history,
                   train_args, train_ret, repeated>>

NextTrain == Train \/ OtherDraw

SpecTrain == InitTrain /\ [][NextTrain]_vars

----------------------------------------------------------------------------
(* An iterator over the stream that _get_dataset returns in mode 'train'   *)
(* (from_generator, repeat, shuffle, batch) and in mode 'train_val'        *)
(* (from_generator, shuffle, batch). Elements are named by their position  *)
(* in the generator's run; prefetch changes no delivery and is left out.   *)

\* the generator, repeated or not, has another element after pos of its run
Available(ds, pos) == Len(ds.elems) > 0 /\ (ds.repeat \/ pos < Len(ds.elems))

\* shuffle fills its buffer up to buffer_size; a repeated generator is run
\* again when its run is over
RECURSIVE FillBuffer(_, _, _)
FillBuffer(ds, pos, buf) ==
    IF Len(buf) < ds.buffer_size /\ Available(ds, pos)
    THEN LET at == IF pos = Len(ds.elems) THEN 0 ELSE pos
         IN  FillBuffer(ds, at + 1, Append(buf, at + 1))
    ELSE [pos |-> pos, buf |-> buf]

RemoveAt(buf, k) == [j \in 1..(Len(buf) - 1) |-> IF j < k THEN buf[j] ELSE buf[j + 1]]

\* batch asks shuffle for Len(picks) elements; shuffle refills its buffer and
\* hands out the slot its random draw picks[i] names, until the buffer is empty
RECURSIVE TakeBatch(_, _, _, _, _)
TakeBatch(ds, pos, buf, out, picks) ==
    IF Len(out) = Len(picks) THEN [pos |-> pos, buf |-> buf, out |-> out]
    ELSE LET f == FillBuffer(ds, pos, buf)
         IN  IF f.buf = <<>> THEN [pos |-> f.pos, buf |-> <<>>, out |-> out]
             ELSE LET k == ((picks[Len(out) + 1] - 1) % Len(f.buf)) + 1
                  IN  TakeBatch(ds, f.pos, RemoveAt(f.buf, k), Append(out, f.buf[k]), picks)

\* the slots a draw can name
Slots == 1..Min(stream.ds.buffer_size, data_X.nrow)

\* iter(dataset): a first iterator
Iterate ==
    /\ stream.ds.status = "ok"
    /\ it_state = "none"
    /\ it_state' = "open"
    /\ UNCHANGED <<stream, it_pos, it_buf, it_log, it_tick>>
    /\ UNCHANGED <<remapVars, labelVars, dsVars, trainVars, sfVars, wVars, eqVars, fitVars, pc>>

\* iter(dataset) again: a new pass, the generator is run from its start
Restart ==
    /\ it_state # "none"
    /\ it_state' = "open"
    /\ it_pos' = 0
    /\ it_buf' = <<>>
    /\ it_log' = <<>>
    /\ UNCHANGED <<stream, it_tick>>
    /\ UNCHANGED <<remapVars, labelVars, dsVars, trainVars, sfVars, wVars, eqVars, fitVars, pc>>

\* next(iterator), the first draw of shuffle naming slot s: one batch, the end
\* of the sequence, or the error of the generator. Of a repeated stream the
\* log keeps the latest batch only.
Pull(s) ==
    /\ it_state = "open"
    /\ s \in Slots
    /\ \E picks \in [1..stream.batch_size -> Slots] :
          /\ picks[1] = s
          /\ \E r \in {TakeBatch(stream.ds, it_pos, it_buf, <<>>, picks)} :
                IF StreamStatus(stream.ds) # "ok"
                THEN /\ it_state' = StreamStatus(stream.ds)
                     /\ UNCHANGED <<it_pos, it_buf, it_log, it_tick>>
                ELSE IF r.out = <<>>
                THEN /\ it_state' = "ended"
                     /\ it_pos' = r.pos
                     /\ it_buf' = r.buf
                     /\ UNCHANGED <<it_log, it_tick>>
                ELSE /\ it_state' = "open"
                     /\ it_pos' = r.pos
                     /\ it_buf' = r.buf
                     /\ it_log' = IF stream.ds.repeat THEN <<r.out>> ELSE Append(it_log, r.out)
                     /\ it_tick' = ~it_tick
    /\ UNCHANGED stream
    /\ UNCHANGED <<remapVars, labelVars, dsVars, trainVars, sfVars, wVars, eqVars, fitVars, pc>>

\* the calls of _get_dataset whose stream is iterated
StreamEstimators ==
    { <<"embedding", "vae">>, <<"embedding", "ae">>, <<"celltype", "mlp">> }

InitStream ==
    /\ pc = "start"
    /\ TrainIdle
    /\ RestIdle
    /\ ensembl = <<"g1", "g2", "g3">>
    /\ data_ids = ensembl
    /\ data_X = PatternMatrix("full", NObs, Len(data_ids))
    /\ x_type = "ndarray"
    /\ filename \in {"None", "backed.h5ad"}
    /\ mapped_features = "absent"
    /\ chunk = step
    /\ empty_clears = TRUE
    /\ dm_ret = [status |-> "none", x |-> ZeroMatrix(0, 0), printed |-> <<>>]
    /\ arg_idx \in IdxChoices \ {None}
    /\ labels = [k \in 1..NObs |-> IF k % 2 = 1 THEN "T cell" ELSE "B cell"]
    /\ ids = <<"T cell", "B cell">>
    /\ ontology = [names |-> ("lymphocyte" :> {"T cell", "B cell"}), ontology_ids |-> EmptyDict]
    /\ max_class_weight = 1000
    /\ ct_ret = [status |-> "none", y |-> <<>>, weights |-> <<>>]
    /\ \E e \in StreamEstimators : est_class = e[1] /\ model_type = e[2]
    /\ \E m \in {"train", "train_val"}, g \in BOOLEAN, bs \in {1, 2}, b \in {1, 2, 10000000} :
          /\ est_class = "celltype" => ~g
          /\ ds_args = [mode |-> m, batch_size |-> bs, weighted |-> TRUE,
                        for_compute_gradients_inputs |-> g, shuffle_buffer_size |-> b]
    /\ ds_ret = DsError("none")

\* dataset = self._get_dataset(idx, batch_size, mode, ...)
GetStream ==
    /\ pc = "start"
    /\ ds_ret' = GetDataset(arg_idx, ds_args)
    /\ stream' = [ds |-> GetDataset(arg_idx, ds_args), batch_size |-> ds_args.batch_size,
                  mode |-> ds_args.mode]
    /\ data_X' = IF ReachesDataMatrix(arg_idx, ds_args) THEN DataMatrix(arg_idx).X ELSE data_X
    /\ pc' = "stream"
    /\ UNCHANGED <<data_ids, x_type, filename, mapped_features, ensembl, arg_idx, chunk,
                   empty_clears, dm_ret>>
    /\ UNCHANGED <<labelVars, trainVars, sfVars, wVars, eqVars, fitVars, est_class, model_type, ds_args>>
    /\ UNCHANGED <<it_state, it_pos, it_buf, it_log, it_tick>>

NextStream == GetStream \/ Iterate \/ Restart \/ \E s \in 1..NObs : Pull(s)

SpecStream == InitStream /\ [][NextStream]_vars

\* one iterator over the stream: its consumer creates it and pulls as long as
\* it is open, and the draws of shuffle name every slot again and again
NextOnePass == GetStream \/ Iterate \/ \E s \in 1..NObs : Pull(s)

FairStream ==
    /\ InitStream
    /\ [][NextOnePass]_vars
    /\ WF_vars(Iterate)
    /\ \A s \in 1..NObs : WF_vars(Pull(s))

----------------------------------------------------------------------------
(* The streams train() builds and hands to fit(), iterated.                *)

\* the estimators whose streams are iterated: no label is outside the universe
FitEstimators ==
    { [c |-> "embedding", mt |-> "vae", file |-> "None", model |-> "initialised", martian |-> FALSE],
      [c |-> "embedding", mt |-> "ae", file |-> "backed.h5ad", model |-> "initialised", martian |-> FALSE],
      [c |-> "celltype", mt |-> "mlp", file |-> "None", model |-> "initialised", martian |-> FALSE],
      [c |-> "celltype", mt |-> "marker", file |-> "backed.h5ad", model |-> "initialised", martian |-> FALSE] }

InitLeak ==
    /\ InitTraining(FitEstimators, {MaxObs, MaxObs + 1})
    /\ rng = 0

\* the first call of train() on the estimator
TrainOnce == pc = "start" /\ Train

\* fit() takes an iterator over train_dataset (mode 'train', idx_train) or
\* over eval_dataset (mode 'train_val', idx_eval), as train() built them
OpenFitStream(mode) ==
    /\ pc \in {"trained", "fit"}
    /\ train_ret.reached \in {"fit", "done"}
    /\ \E idx \in {IF mode = "train" THEN idx_train ELSE idx_eval} :
          stream' = [ds |-> GetDataset(idx, TrainDsArgs(train_args, mode, idx)),
                     batch_size |-> IF mode = "train" THEN train_args.batch_size
                                    ELSE train_args.validation_batch_size,
                     mode |-> mode]
    /\ it_state' = "open"
    /\ it_pos' = 0
    /\ it_buf' = <<>>
    /\ it_log' = <<>>
    /\ it_tick' = FALSE
    /\ pc' = "fit"
    /\ UNCHANGED <<remapVars, labelVars, dsVars, trainVars, sfVars, wVars, eqVars, fitVars>>

NextLeak ==
    \/ TrainOnce
    \/ \E mode \in {"train", "train_val"} : OpenFitStream(mode)
    \/ \E s \in 1..(MaxObs + 1) : Pull(s)

SpecLeak == InitLeak /\ [][NextLeak]_vars

----------------------------------------------------------------------------
(* Calls of train() that succeed and that fail on one embedding estimator, *)
(* with evaluate() and predict() after them.                               *)

InitFrame ==
    /\ InitTrain
    /\ data_X.nrow = MaxObs
    /\ est_class = "embedding"
    /\ model = "initialised"
    /\ rng = 0

\* the arguments evaluate() and predict() pass to _get_dataset
TestArgs(mode) == [ds_args EXCEPT !.mode = mode]

\* one call self.evaluate() or self.predict() after train(): idx is self.idx_test
EvaluateTrained ==
    /\ pc = "trained"
    /\ \E mode \in {"eval", "predict"} :
          /\ ds_args' = TestArgs(mode)
          /\ ds_ret' = Evaluate(idx_test, TestArgs(mode), model)
          /\ data_X' = IF ReachesDataMatrix(idx_test, TestArgs(mode))
                       THEN DataMatrix(idx_test).X ELSE data_X
    /\ pc' = "evaluated"
    /\ UNCHANGED <<data_ids, x_type, filename, mapped_features, ensembl, arg_idx, chunk,
                   empty_clears, dm_ret>>
    /\ UNCHANGED <<labelVars, trainVars, restVars, est_class, model_type>>

NextFrame == Train \/ EvaluateTrained

SpecFrame == InitFrame /\ [][NextFrame]_vars

----------------------------------------------------------------------------
(* The size factor computer on arrays of rank 0 to 3 with entries that are *)
(* counts, among them rows that sum to 100, 0 and 10000.                   *)

Counts == {0, 100, 10000}

\* the shapes tried: a scalar, vectors, matrices and arrays of rank 3
Shapes ==
    {<<>>} \cup {<<n>> : n \in 0..NObs} \cup {<<n, m>> : n \in 1..NObs, m \in 1..2}
        \cup {<<n, 1, 1>> : n \in 1..2}

\* the number of entries of an array of shape sh
Size(sh) == ProdSeq(sh)

AllIdle == pc = "start" /\ RemapIdle /\ arg_idx = None /\ LabelIdle /\ DsIdle /\ TrainIdle

InitSf ==
    /\ AllIdle
    /\ WeightsIdle
    /\ ds_mem = DsError("none")
    /\ ItIdle
    /\ FitIdle
    /\ \E sh \in Shapes : \E flat \in [1..Size(sh) -> Counts] :
          sf_x = [shape |-> sh, flat |-> flat]
    /\ sf_ret = [status |-> "none", sf |-> <<>>]

\* one call self._prepare_sf(x)
CallPrepareSf ==
    /\ pc = "start"
    /\ sf_ret' = PrepareSfArray(sf_x)
    /\ pc' = "done"
    /\ UNCHANGED <<remapVars, labelVars, dsVars, trainVars, wVars, eqVars, itVars, fitVars, sf_x>>

NextSf == CallPrepareSf

SpecSf == InitSf /\ [][NextSf]_vars

----------------------------------------------------------------------------
(* Pretrained weights: load_pretrained_weights and _assert_md5_sum.        *)
(* A string is a sequence of pieces, a piece being the separator or a text *)
(* free of separators, so that + of strings is \o. The file system is the  *)
(* set of files that exist, each a resolved path with the digest of its    *)
(* content.                                                                *)

MaxCalls == 2

Sep == "/"
WeightsName == <<"_weights">>
H5 == <<".h5">>
Shard == <<".data-00000-of-00001">>

\* s.endswith('/') and s.startswith('http')
EndsWithSep(s) == s # <<>> /\ s[Len(s)] = Sep
StartsWithHttp(s) == s # <<>> /\ s[1] = "http:"

\* the file or resource a path names: a run of separators reads as one
RECURSIVE Resolve(_)
Resolve(p) ==
    IF Len(p) < 2 THEN p
    ELSE IF p[1] = Sep /\ p[2] = Sep THEN Resolve(Tail(p))
    ELSE <<p[1]>> \o Resolve(Tail(p))

\* os.path.exists(p), the digest of the file at p, and writing a file
Exists(files, p) == \E f \in files : f.path = Resolve(p)
Digest(files, p) == (CHOOSE f \in files : f.path = Resolve(p)).digest
WriteFile(files, p, d) ==
    {f \in files : f.path # Resolve(p)} \cup {[path |-> Resolve(p), digest |-> d]}

\* one step of a call: a fetch, a digest check or a load, and how it ended
Step(op, arg, out) == [op |-> op, arg |-> arg, out |-> out]

FetchErrors == {"HTTPError", "URLError"}

\* urllib.request.urlretrieve(url, ...): the digest of what was fetched, or the
\* error raised; the server holds the two files under rem.base
Urlretrieve(rem, url, kind, ext) ==
    IF rem[kind] = "URLError" THEN "URLError"
    ELSE IF Resolve(url) = Resolve(rem.base \o ext) THEN rem[kind]
    ELSE "HTTPError"

\* a download that fetches both URLs whatever the first fetch gave
DownloadBoth(dir, id, cache, files, rem) ==
    LET u1 == dir \o id \o WeightsName \o H5
        u2 == dir \o id \o WeightsName \o Shard
        r1 == Urlretrieve(rem, u1, "h5", H5)
        r2 == Urlretrieve(rem, u2, "shard", Shard)
        tr == <<Step("fetch", u1, r1), Step("fetch", u2, r2)>>
    IN  IF r1 \notin FetchErrors /\ r2 \notin FetchErrors
        THEN [status |-> "ok", trace |-> tr,
              fs |-> WriteFile(WriteFile(files, cache \o id \o WeightsName \o H5, r1),
                               cache \o id \o WeightsName \o Shard, r2)]
        ELSE [status |-> "FileNotFoundError: cannot find remote weightsfile",
              trace |-> tr, fs |-> files]

\* the remote branch up to fn: the .h5 URL, on HTTPError the sharded URL, on
\* HTTPError again FileNotFoundError; any other error of a fetch propagates
Download(dir, id, cache, files, rem) ==
    LET u1 == dir \o id \o WeightsName \o H5
        u2 == dir \o id \o WeightsName \o Shard
        r1 == Urlretrieve(rem, u1, "h5", H5)
        r2 == Urlretrieve(rem, u2, "shard", Shard)
    IN  IF r1 \notin FetchErrors
        THEN [status |-> "ok", trace |-> <<Step("fetch", u1, r1)>>,
              fs |-> WriteFile(files, cache \o id \o WeightsName \o H5, r1)]
        ELSE IF r1 # "HTTPError"
        THEN [status |-> r1, trace |-> <<Step("fetch", u1, r1)>>, fs |-> files]
        ELSE IF r2 \notin FetchErrors
        THEN [status |-> "ok", trace |-> <<Step("fetch", u1, r1), Step("fetch", u2, r2)>>,
              fs |-> WriteFile(files, cache \o id \o WeightsName \o Shard, r2)]
        ELSE IF r2 # "HTTPError"
        THEN [status |-> r2, trace |-> <<Step("fetch", u1, r1), Step("fetch", u2, r2)>>,
              fs |-> files]
        ELSE [status |-> "FileNotFoundError: cannot find remote weightsfile",
              trace |-> <<Step("fetch", u1, r1), Step("fetch", u2, r2)>>, fs |-> files]

\* _assert_md5_sum(fn, target_md5): TRUE when it returns, FALSE when it raises
AssertMd5Skip(files, fn, target_md5) == TRUE
AssertMd5Sum(files, fn, target_md5) == Digest(files, fn) = target_md5

Md5Error == "ValueError: md5 did not match expectation"

\* self._assert_md5_sum(file, self.md5) and then load_weights(arg)
CheckAndLoad(files, file, arg, target_md5, mdl, w) ==
    IF ~AssertMd5Sum(files, file, target_md5)
    THEN [status |-> Md5Error, trace |-> <<Step("md5", file, "raised")>>, weights |-> w]
    ELSE IF mdl = "None"
    THEN [status |-> NoModel, trace |-> <<Step("md5", file, "ok")>>, weights |-> w]
    ELSE [status |-> "ok",
          trace |-> <<Step("md5", file, "ok"), Step("load", arg, Digest(files, file))>>,
          weights |-> Digest(files, file)]

\* the chain of os.path.exists tests on fn
Lookup(files, fn, target_md5, mdl, w) ==
    IF Exists(files, fn \o H5)
    THEN CheckAndLoad(files, fn \o H5, fn \o H5, target_md5, mdl, w)
    ELSE IF Exists(files, fn \o Shard)
    THEN CheckAndLoad(files, fn \o Shard, fn, target_md5, mdl, w)
    ELSE IF Exists(files, fn)
    THEN [status |-> "ValueError: weights files saved in h5 format need to have an h5 file extension",
          trace |-> <<>>, weights |-> w]
    ELSE [status |-> "ValueError: the weightsfile could not be found",
          trace |-> <<>>, weights |-> w]

\* load_pretrained_weights(): the new self.model_dir, the files, the weights of
\* the model, how the call ended, its steps and the fn it looked up
LoadPretrainedWeights(id, dir, target_md5, cache, files, rem, mdl, w) ==
    LET d == IF EndsWithSep(dir) THEN dir \o <<Sep>> ELSE dir
        dl == IF StartsWithHttp(d) THEN Download(d, id, cache, files, rem)
              ELSE IF d = <<>>
              THEN [status |-> "ValueError: the model_id is set but the path to the model is empty",
                    trace |-> <<>>, fs |-> files]
              ELSE [status |-> "ok", trace |-> <<>>, fs |-> files]
        fn == IF StartsWithHttp(d) THEN cache \o id \o WeightsName
              ELSE d \o id \o WeightsName
        l == Lookup(dl.fs, fn, target_md5, mdl, w)
    IN  IF dl.status # "ok"
        THEN [model_dir |-> d, fs |-> dl.fs, weights |-> w, status |-> dl.status,
              trace |-> dl.trace, fn |-> None]
        ELSE [model_dir |-> d, fs |-> dl.fs, weights |-> l.weights, status |-> l.status,
              trace |-> dl.trace \o l.trace, fn |-> fn]

\* ---- inputs ----
Digests == {"d1", "d2"}
Absent == "absent"
ModelDirs == {<<>>, <<"dir">>, <<"dir", Sep>>,
              <<"http:", Sep, Sep, "host", Sep, "dir">>,
              <<"http:", Sep, Sep, "host", Sep, "dir", Sep>>}
Checksums == {"None", "d1"}
Outcomes == Digests \cup FetchErrors
DefaultCache == <<"cache", Sep>>

\* <model_dir>/<model_id>_weights, one separator between the two
DocumentedFn(dir, id) == (IF EndsWithSep(dir) THEN dir ELSE dir \o <<Sep>>) \o id \o WeightsName

FileAt(p, d) == IF d = Absent THEN {} ELSE {[path |-> Resolve(p), digest |-> d]}

InitWeights ==
    /\ pc = "start"
    /\ RemapIdle /\ arg_idx = None
    /\ LabelIdle
    /\ DsIdle
    /\ EstimatorFresh
    /\ SfIdle
    /\ ds_mem = DsError("none")
    /\ ItIdle
    /\ FitIdle
    /\ model \in {"None", "initialised"}
    /\ model_weights = IF model = "None" THEN "None" ELSE "init"
    /\ model_id = <<"m1">>
    /\ dir_given \in ModelDirs
    /\ model_dir = dir_given
    /\ md5 \in Checksums
    /\ cache_path = DefaultCache
    /\ LET base == IF StartsWithHttp(dir_given) THEN cache_path \o model_id \o WeightsName
                   ELSE DocumentedFn(dir_given, model_id)
       IN  \E h, s, n \in Digests \cup {Absent} :
              fs = FileAt(base \o H5, h) \cup FileAt(base \o Shard, s) \cup FileAt(base, n)
    /\ IF StartsWithHttp(dir_given)
       THEN \E o1, o2 \in Outcomes :
              remote = [base |-> DocumentedFn(dir_given, model_id), h5 |-> o1, shard |-> o2]
       ELSE remote = [base |-> <<>>, h5 |-> "HTTPError", shard |-> "HTTPError"]
    /\ w_ret = NoCall
    /\ w_calls = 0
    /\ saved = FALSE

\* one call self.load_pretrained_weights()
CallLoadPretrainedWeights ==
    /\ pc \in {"start", "loaded"}
    /\ w_calls < MaxCalls
    /\ \E r \in {LoadPretrainedWeights(model_id, model_dir, md5, cache_path, fs, remote,
                                       model, model_weights)} :
          /\ model_dir' = r.model_dir
          /\ fs' = r.fs
          /\ model_weights' = r.weights
          /\ w_ret' = [op |-> "load_pretrained_weights", status |-> r.status,
                       trace |-> r.trace, fn |-> r.fn, clear |-> FALSE, fs |-> fs,
                       weights |-> model_weights]
    /\ w_calls' = w_calls + 1
    /\ pc' = "loaded"
    /\ UNCHANGED <<remapVars, labelVars, dsVars, trainVars, sfVars, eqVars, itVars, fitVars, model_id, dir_given,
                   md5, cache_path, remote, saved>>

NextWeights == CallLoadPretrainedWeights

SpecWeights == InitWeights /\ [][NextWeights]_vars

----------------------------------------------------------------------------
(* The weights cache: save_weights_to_cache, load_weights_from_cache and   *)
(* init_model.                                                             *)

\* self.cache_path + 'weights/' and the cache file of a model id
CacheDir(cache) == cache \o <<"weights", Sep>>
CacheFn(cache, id) == CacheDir(cache) \o id \o <<"_weights_cache.h5">>

\* file f is an entry of directory dir (os.listdir): directly in it
InDir(f, dir) ==
    LET d == Resolve(dir)
    IN  /\ Len(f.path) > Len(d)
        /\ SubSeq(f.path, 1, Len(d)) = d
        /\ \A i \in (Len(d) + 1)..Len(f.path) : f.path[i] # Sep

\* an init_model that leaves the cache alone
KeepCache(files, cache) == files
\* os.remove of every entry of the cache directory, if the directory exists
ClearCache(files, cache) == {f \in files : ~InDir(f, CacheDir(cache))}

\* the Model classes init_model knows for the estimator's model_type
KnownType(cls, type) ==
    IF cls = "embedding" THEN type \in {"vae", "ae", "linear", "vaeiaf", "vaevamp"}
    ELSE type \in {"marker", "mlp"}

\* init_model(clear_weight_cache): the files, self.model, its weights, the outcome
InitModelValidating(clear, files, cache, cls, type, mdl, w) ==
    IF KnownType(cls, type)
    THEN [fs |-> IF clear THEN ClearCache(files, cache) ELSE files,
          model |-> "initialised", weights |-> "init", status |-> "ok"]
    ELSE [fs |-> files, model |-> mdl, weights |-> w,
          status |-> "ValueError: unknown model type"]
InitModel(clear, files, cache, cls, type, mdl, w) ==
    LET cleared == IF clear THEN ClearCache(files, cache) ELSE files
    IN  IF KnownType(cls, type)
        THEN [fs |-> cleared, model |-> "initialised", weights |-> "init", status |-> "ok"]
        ELSE [fs |-> cleared, model |-> mdl, weights |-> w,
              status |-> "ValueError: unknown model type"]

\* save_weights_to_cache()
SaveWeightsToCache(files, cache, id, mdl, w) ==
    IF mdl = "None" THEN [fs |-> files, status |-> NoModel]
    ELSE [fs |-> WriteFile(files, CacheFn(cache, id), w), status |-> "ok"]

\* load_weights_from_cache()
LoadWeightsFromCache(files, cache, id, mdl, w) ==
    IF mdl = "None" THEN [weights |-> w, status |-> NoModel]
    ELSE IF ~Exists(files, CacheFn(cache, id))
    THEN [weights |-> w, status |-> "OSError: unable to open file"]
    ELSE [weights |-> Digest(files, CacheFn(cache, id)), status |-> "ok"]

\* ---- inputs ----
\* what other processes left in and next to the cache directory
ForeignFiles(cache) ==
    {[path |-> Resolve(CacheFn(cache, <<"m2">>)), digest |-> "d2"],
     [path |-> Resolve(CacheDir(cache) \o <<"notes">>), digest |-> "d1"],
     [path |-> Resolve(cache \o <<"m1">> \o WeightsName \o H5), digest |-> "d1"]}

InitCache ==
    /\ pc = "start"
    /\ RemapIdle /\ arg_idx = None
    /\ LabelIdle
    /\ EstimatorFresh
    /\ SfIdle
    /\ ds_mem = DsError("none")
    /\ ItIdle
    /\ FitIdle
    /\ est_class \in {"embedding", "celltype"}
    /\ model_type \in {"ae", "mlp"}
    /\ ds_args = [mode |-> "none", batch_size |-> 0, weighted |-> TRUE,
                  for_compute_gradients_inputs |-> FALSE, shuffle_buffer_size |-> 0]
    /\ ds_ret = DsError("none")
    /\ model = "None"
    /\ model_weights = "None"
    /\ model_id = <<"m1">>
    /\ dir_given = <<"dir", Sep>>
    /\ model_dir = dir_given
    /\ md5 = "None"
    /\ cache_path = DefaultCache
    /\ fs \in SUBSET ForeignFiles(cache_path)
    /\ remote = [base |-> <<>>, h5 |-> "HTTPError", shard |-> "HTTPError"]
    /\ w_ret = NoCall
    /\ w_calls = 0
    /\ saved = FALSE

Returned(op, status, clear) ==
    [op |-> op, status |-> status, trace |-> <<>>, fn |-> None, clear |-> clear,
     fs |-> fs, weights |-> model_weights]

\* one call self.init_model(clear_weight_cache=clear)
CallInitModel ==
    /\ \E clear \in BOOLEAN :
       \E r \in {InitModel(clear, fs, cache_path, est_class, model_type, model,
                           model_weights)} :
          /\ fs' = r.fs
          /\ model' = r.model
          /\ model_weights' = r.weights
          /\ w_ret' = Returned("init_model", r.status, clear)
          /\ saved' = (saved /\ ~clear)
    /\ pc' = "cache"
    /\ UNCHANGED <<remapVars, labelVars, dsVars, sfVars, eqVars, itVars, fitVars, rng, obs, idx_test, idx_eval,
                   idx_train, train_hyperparam, obs_train, obs_eval, obs_test, history,
                   train_args, train_ret, foreign_draw, repeated, model_id, model_dir,
                   dir_given, md5, cache_path, remote, w_calls>>

\* the model is trained further or loaded from elsewhere: other weights
ChangeWeights ==
    /\ model # "None"
    /\ \E w \in Digests : model_weights' = w
    /\ w_ret' = Returned("other", "ok", FALSE)
    /\ pc' = "cache"
    /\ UNCHANGED <<remapVars, labelVars, dsVars, trainVars, sfVars, eqVars, itVars, fitVars, model_id, model_dir,
                   dir_given, md5, cache_path, fs, remote, w_calls, saved>>

\* one call self.save_weights_to_cache()
CallSaveWeightsToCache ==
    /\ \E r \in {SaveWeightsToCache(fs, cache_path, model_id, model, model_weights)} :
          /\ fs' = r.fs
          /\ w_ret' = Returned("save_weights_to_cache", r.status, FALSE)
          /\ saved' = (saved \/ r.status = "ok")
    /\ pc' = "cache"
    /\ UNCHANGED <<remapVars, labelVars, dsVars, trainVars, sfVars, eqVars, itVars, fitVars, model_id, model_dir,
                   dir_given, md5, cache_path, remote, model_weights, w_calls>>

\* one call self.load_weights_from_cache()
CallLoadWeightsFromCache ==
    /\ \E r \in {LoadWeightsFromCache(fs, cache_path, model_id, model, model_weights)} :
          /\ model_weights' = r.weights
          /\ w_ret' = Returned("load_weights_from_cache", r.status, FALSE)
    /\ pc' = "cache"
    /\ UNCHANGED <<remapVars, labelVars, dsVars, trainVars, sfVars, eqVars, itVars, fitVars, model_id, model_dir,
                   dir_given, md5, cache_path, fs, remote, w_calls, saved>>

NextCache ==
    \/ CallInitModel
    \/ ChangeWeights
    \/ CallSaveWeightsToCache
    \/ CallLoadWeightsFromCache

SpecCache == InitCache /\ [][NextCache]_vars

----------------------------------------------------------------------------
(* training_model.fit(x=train_dataset, epochs, steps_per_epoch, callbacks, *)
(* validation_data=eval_dataset, validation_steps) as train() calls it: the *)
(* epoch loop of keras with the EarlyStopping callback on val_loss. The     *)
(* partitions are given by their sizes, the loss by whether it improved.    *)

\* largest number of epochs tried
MaxEpochs == 3

\* batches that one pass over the validation stream holds
PassBatches(n, batch_size) == (n + batch_size - 1) \div batch_size

InitFit ==
    /\ AllIdle
    /\ RestIdle

\* steps_per_epoch and validation_steps are computed and fit() is entered
FitBegin ==
    /\ fit_run.state = "none"
    /\ \E n_train \in 1..MaxObs, n_eval \in {1, MaxObs}, epochs \in {0, 1, MaxEpochs},
          patience \in {1, 2}, bs \in {1, 2}, vbs \in {1, 2}, ms \in {1, 2}, mv \in {1, 2} :
       \E h \in {Fit([batch_size |-> bs, validation_batch_size |-> vbs,
                      max_steps_per_epoch |-> ms, max_validation_steps |-> mv],
                     n_train, n_eval)} :
          fit_run' = [NoFit EXCEPT !.state = IF epochs = 0 THEN "returned" ELSE "train",
                                   !.epochs = epochs, !.patience = patience,
                                   !.n_train = n_train, !.n_eval = n_eval,
                                   !.batch_size = bs, !.validation_batch_size = vbs,
                                   !.max_steps_per_epoch = ms, !.max_validation_steps = mv,
                                   !.steps_per_epoch = h.steps_per_epoch,
                                   !.validation_steps = h.validation_steps]
    /\ pc' = "fit"
    /\ UNCHANGED <<remapVars, labelVars, dsVars, trainVars, sfVars, wVars, eqVars, itVars>>

\* one training step: a batch is pulled from the train stream, which never ends
TrainStep ==
    /\ fit_run.state = "train"
    /\ fit_run' = [fit_run EXCEPT !.pulled = @ + 1, !.step = @ + 1,
                                  !.state = IF fit_run.step + 1 = fit_run.steps_per_epoch
                                            THEN "validate" ELSE "train"]
    /\ UNCHANGED <<remapVars, labelVars, dsVars, trainVars, sfVars, wVars, eqVars, itVars, pc>>

\* one validation step on a new pass over the validation stream; a pass that
\* is over before validation_steps batches ends the validation
ValidationStep ==
    /\ fit_run.state = "validate"
    /\ fit_run' =
          IF fit_run.vstep = PassBatches(fit_run.n_eval, fit_run.validation_batch_size)
          THEN [fit_run EXCEPT !.state = "ran out of data"]
          ELSE [fit_run EXCEPT !.vpulled = @ + 1, !.vstep = @ + 1,
                               !.state = IF fit_run.vstep + 1 = fit_run.validation_steps
                                         THEN "epoch end" ELSE "validate"]
    /\ UNCHANGED <<remapVars, labelVars, dsVars, trainVars, sfVars, wVars, eqVars, itVars, pc>>

\* EarlyStopping.on_epoch_end: val_loss improved on the best so far or not (the
\* first epoch improves on infinity); then the loop goes on or fit() returns
EpochEnd ==
    /\ fit_run.state \in {"epoch end", "ran out of data"}
    /\ \E improved \in BOOLEAN :
          /\ fit_run.epoch = 0 => improved
          /\ \E wait \in {IF improved THEN 0 ELSE fit_run.wait + 1} :
                fit_run' = [fit_run EXCEPT !.epoch = @ + 1, !.wait = wait, !.step = 0,
                                           !.vstep = 0, !.vpulled = 0,
                                           !.state = IF \/ wait >= fit_run.patience
                                                        \/ fit_run.epoch + 1 = fit_run.epochs
                                                     THEN "returned" ELSE "train"]
    /\ UNCHANGED <<remapVars, labelVars, dsVars, trainVars, sfVars, wVars, eqVars, itVars, pc>>

NextFit == FitBegin \/ TrainStep \/ ValidationStep \/ EpochEnd

SpecFit == InitFit /\ [][NextFit]_vars

\* fit() runs on: no step of its loop waits for anything
FairFit == SpecFit /\ WF_vars(NextFit)

----------------------------------------------------------------------------
(* Claims about the feature remapper.                                      *)

\* the observations a call was asked for
Requested == IF arg_idx = None THEN Arange(data_X.nrow) ELSE arg_idx

\* the call has returned from the remapping path (in memory, not declared mapped)
Remapped == pc = "done" /\ dm_ret.status = "ok" /\ mapped_features # genome

\* the input rows the call was asked for (data.X as the call left it)
RequestedRows == RowSlice(data_X, Requested)

\* C1: the remapped matrix has N_ref columns and one row per requested
\* observation; column j is nonzero only if ensembl[j] is an input identifier,
\* and it then equals the input column carrying that identifier, on the
\* requested rows, value for value.
C1_RemapRoundTrip ==
    Remapped =>
        /\ dm_ret.x.ncol = Len(ensembl)
        /\ dm_ret.x.nrow = Len(Requested)
        /\ \A j \in 0..(Len(ensembl) - 1) :
              /\ Nnz(ColSlice(dm_ret.x, <<j>>)) # 0 => ensembl[j + 1] \in Range(data_ids)
              /\ \A k \in 0..(Len(data_ids) - 1) :
                    data_ids[k + 1] = ensembl[j + 1]
                        => Column(dm_ret.x, j) = Column(RequestedRows, k)

\* C5: the chunked copy gives what one bulk assignment of all kept columns
\* gives, and the same for every chunk size.
C5_ChunkedEqualsBulk ==
    Remapped =>
        LET xk == ColSlice(RequestedRows, IdxFeatureKept(data_ids, ensembl))
            fmap == IdxFeatureMap(data_ids, ensembl)
            zero == ZeroMatrix(xk.nrow, Len(ensembl))
        IN  /\ dm_ret.x = SetColumns(zero, fmap, xk, empty_clears)
            /\ \A st \in ChunkSizes :
                  dm_ret.x = CopyColumns(zero, fmap, xk, st, empty_clears)

\* C12: when no input identifier occurs in the reference, the remapper fails
\* (FeatureSpaceMismatch) instead of returning a matrix.
C12_NoFeatureFails ==
    (/\ pc = "done" /\ filename = "None" /\ x_type \in {"ndarray", "spmatrix"}
     /\ mapped_features # genome /\ data_ids # <<>>
     /\ \A k \in DOMAIN data_ids : data_ids[k] \notin Range(ensembl))
        => dm_ret.status \notin {"ok", "none"}

\* C13: the matrix returned for an in-memory input, dense or sparse, has no
\* NaN entry.
C13_NoNaN ==
    (pc = "done" /\ dm_ret.status = "ok")
        => \A r \in 1..dm_ret.x.nrow : \A c \in 1..dm_ret.x.ncol : dm_ret.x.a[r][c] # NaN

\* C20: no two kept input columns are copied to the same output column, and
\* every kept input column is found, value for value, at its target.
C20_OneSourcePerTarget ==
    Remapped =>
        LET kept == IdxFeatureKept(data_ids, ensembl)
            fmap == IdxFeatureMap(data_ids, ensembl)
        IN  /\ \A k, l \in DOMAIN fmap : k # l => fmap[k] # fmap[l]
            /\ \A k \in DOMAIN fmap :
                  Column(dm_ret.x, fmap[k]) = Column(RequestedRows, kept[k])

\* C26: the call reports the pair (kept features, features of the input) and
\* the pair (kept features, N_ref), the second number of the first pair being
\* the feature count of the input before unmapped columns were dropped.
C26_ReportedCounts ==
    Remapped =>
        LET kept == Cardinality({k \in DOMAIN data_ids : data_ids[k] \in Range(ensembl)})
        IN  dm_ret.printed = << <<kept, Len(data_ids)>>, <<kept, Len(ensembl)>> >>

----------------------------------------------------------------------------
(* Claims about the label encoder.                                         *)

\* the label of the i-th requested observation
LabelAt(i) == labels[Requested[i] + 1]

Encoded == pc = "done" /\ ct_ret.status = "ok"

\* the columns of the class list that hold one of the classes in `leaves`
LeafColumns(leaves) == {c \in 1..Len(ids) : ids[c] \in leaves}

\* the columns of a row that are not zero
NonZero(row) == {c \in DOMAIN row : row[c] # 0}

\* C6: a requested observation whose label is in neither the class list nor
\* the keys of a consulted grouping makes the call fail, and nothing is returned.
C6_UnknownLabelRejected ==
    (pc = "done" /\ \E i \in DOMAIN Requested :
                        /\ LabelAt(i) \notin Range(ids)
                        /\ \A o \in DOMAIN lookup_ontology :
                              LabelAt(i) \notin DOMAIN ontology[lookup_ontology[o]])
        => /\ ct_ret.status = "ValueError: label not found"
           /\ ct_ret.y = <<>>
           /\ ct_ret.weights = <<>>

\* classes {T cell, B cell}, no alias, a 'Martian cell' among the requested labels
C6_Witness ==
    /\ pc = "done"
    /\ ids = <<"T cell", "B cell">>
    /\ DOMAIN ontology.names = {}
    /\ \E i \in DOMAIN Requested : LabelAt(i) = "Martian cell"
    /\ ct_ret.status = "ValueError: label not found"

\* C7: the row of an observation whose label is a member of the class list
\* has one nonzero entry, a 1 at the position of the label; it sums to 1,
\* with and without the appended "unknown" column.
C7_ExactMatchOneHot ==
    Encoded =>
        \A i \in DOMAIN Requested :
            LabelAt(i) \in Range(ids) =>
                /\ Len(ct_ret.y[i]) = TypeClasses(ids)
                /\ NonZero(ct_ret.y[i]) = {c \in 1..Len(ids) : ids[c] = LabelAt(i)}
                /\ Cardinality(NonZero(ct_ret.y[i])) = 1
                /\ \A c \in NonZero(ct_ret.y[i]) : ct_ret.y[i][c] = 1
                /\ SumSeq(ct_ret.y[i]) = 1

\* an exact label encoded with the extra column, and one without it
C7_Witness ==
    /\ Encoded
    /\ \E i \in DOMAIN Requested : LabelAt(i) \in Range(ids)
    /\ TypeClasses(ids) = Len(ids) + 1

RowDot(i, j) ==
    SumSeq([c \in DOMAIN ct_ret.y[i] |-> ct_ret.y[i][c] * ct_ret.y[j][c]])

\* every encoded row has a class
AllLabelled == \A i \in DOMAIN ct_ret.y : SumSeq(ct_ret.y[i]) > 0

\* C24: the weight of observation i is min(max_class_weight, 1 / (row_i . freq))
\* with freq the column-wise mean of the rows, each divided by its own row sum,
\* and row_i taken as it is (not divided by its row sum); no weight exceeds
\* max_class_weight. With n rows of row sums k_j and P their product,
\* 1 / (row_i . freq) = n P / sum_j (row_i . row_j) (P / k_j).
C24_ClassWeight ==
    Encoded =>
        LET y == ct_ret.y
            w == ct_ret.weights
            n == Len(y)
            P == ProdSeq([j \in 1..n |-> SumSeq(y[j])])
        IN  /\ \A i \in 1..n : w[i][1] # NaN => w[i][1] <= max_class_weight * w[i][2]
            /\ AllLabelled =>
                  \A i \in 1..n :
                      LET den == SumSeq([j \in 1..n |-> RowDot(i, j) * (P \div SumSeq(y[j]))])
                      IN  IF n * P > max_class_weight * den
                          THEN w[i] = <<max_class_weight, 1>>
                          ELSE w[i][1] * den = w[i][2] * n * P

\* C24 witness: every row has a class, one row is multi-hot with two classes,
\* one weight is capped and another is below the cap.
C24_Witness ==
    /\ Encoded
    /\ AllLabelled
    /\ \E i \in DOMAIN ct_ret.y : SumSeq(ct_ret.y[i]) = 2
    /\ \E i \in DOMAIN ct_ret.weights : ct_ret.weights[i] = <<max_class_weight, 1>>
    /\ \E i \in DOMAIN ct_ret.weights :
          ct_ret.weights[i][1] < max_class_weight * ct_ret.weights[i][2]

\* C28: when the encoder returns, every label row has a nonzero entry and
\* every weight is a number w with 1 <= w <= max_class_weight, also for an
\* observation whose label is an alias without a leaf in the class list.
C28_RowsAndWeightsDefined ==
    Encoded =>
        /\ AllLabelled
        /\ \A i \in DOMAIN ct_ret.weights :
              /\ ct_ret.weights[i][1] # NaN
              /\ ct_ret.weights[i][2] <= ct_ret.weights[i][1]
              /\ ct_ret.weights[i][1] <= max_class_weight * ct_ret.weights[i][2]

----------------------------------------------------------------------------
(* Claims about the size factor.                                           *)

\* the sum of the entries of row r (from 1) of the rank-2 argument
ArgRowSum(r) ==
    SumSeq([c \in 1..sf_x.shape[2] |-> sf_x.flat[(r - 1) * sf_x.shape[2] + c]])

\* C11: for a rank-2 argument the size factor computer returns one value per
\* row, ln(row_sum / 1e4 + 1e-10); for a rank-1 argument one value, from the
\* sum of the whole vector; for every other rank it fails with the rank error.
C11_SizeFactor ==
    pc = "done" =>
        /\ Ndim(sf_x) = 2 =>
              /\ sf_ret.status = "ok"
              /\ Len(sf_ret.sf) = sf_x.shape[1]
              /\ \A r \in 1..sf_x.shape[1] :
                    sf_ret.sf[r] = [sum |-> ArgRowSum(r), scale |-> 10000, eps |-> "1e-10"]
        /\ Ndim(sf_x) = 1 =>
              /\ sf_ret.status = "ok"
              /\ sf_ret.sf = <<[sum |-> SumSeq(sf_x.flat), scale |-> 10000, eps |-> "1e-10"]>>
        /\ Ndim(sf_x) \notin {1, 2} => sf_ret.status = "ValueError: x.shape > 2"

\* C11 witness: a matrix whose rows sum to 100, 0 and 10000.
C11_Witness ==
    /\ pc = "done" /\ sf_ret.status = "ok"
    /\ sf_x.shape = <<3, 2>>
    /\ ArgRowSum(1) = 100 /\ ArgRowSum(2) = 0 /\ ArgRowSum(3) = 10000
    /\ sf_ret.sf[1].sum = 100 /\ sf_ret.sf[2].sum = 0 /\ sf_ret.sf[3].sum = 10000

----------------------------------------------------------------------------
(* Claims about train().                                                   *)

Partitioned == pc = "trained" /\ train_ret.partitioned

\* C2: after a run of train() that gets past partitioning, idx_train, idx_eval
\* and idx_test are pairwise disjoint and together are exactly 0..N-1, for a
\* fractional and for a predicate test_split.
C2_PartitionDisjointCover ==
    Partitioned =>
        /\ Range(idx_train) \cap Range(idx_eval) = {}
        /\ Range(idx_train) \cap Range(idx_test) = {}
        /\ Range(idx_eval) \cap Range(idx_test) = {}
        /\ Range(idx_train) \cup Range(idx_eval) \cup Range(idx_test) = 0..(data_X.nrow - 1)

\* C2 witness: a fractional split that leaves every partition with a member.
C2_Witness ==
    /\ Partitioned
    /\ train_args.test_split.kind = "float"
    /\ Len(idx_test) > 0 /\ Len(idx_eval) > 0 /\ Len(idx_train) > 0

\* observation i has, in every field of the predicate, one of the accepted values
Matches(i) ==
    \A n \in DOMAIN train_args.test_split.items :
        LET item == train_args.test_split.items[n]
        IN  \E j \in DOMAIN item.v : ObsColumn(item.k)[i + 1] = item.v[j]

\* C25: with a predicate test_split idx_test is exactly the observations that
\* match every field (a list of accepted values matching any member, a single
\* value matching on equality), each once; idx_eval and idx_train hold the
\* remaining observations and only those.
C25_PredicateSplit ==
    (Partitioned /\ train_args.test_split.kind = "dict") =>
        LET all == 0..(data_X.nrow - 1)
            matching == {i \in all : Matches(i)}
        IN  /\ Range(idx_test) = matching
            /\ Len(idx_test) = Cardinality(matching)
            /\ Range(idx_eval) \cup Range(idx_train) = all \ matching
            /\ Len(idx_eval) + Len(idx_train) = Cardinality(all \ matching)

\* C25 witness: a predicate of two fields, one with a list, met by some
\* observation and not by others, of which one went to eval and one to train.
C25_Witness ==
    /\ Partitioned
    /\ train_args.test_split.kind = "dict"
    /\ Len(train_args.test_split.items) = 2
    /\ \E n \in DOMAIN train_args.test_split.items : train_args.test_split.items[n].is_list
    /\ Len(idx_test) > 0 /\ Len(idx_eval) > 0 /\ Len(idx_train) > 0

\* C4: a call of train() with the arguments of the call before it, on the
\* same data, yields the same idx_test, idx_eval and idx_train in the same
\* order, whatever was drawn from the generator before or between the calls.
C4_PartitionDeterministic ==
    [][(/\ Partitioned
        /\ pc' = "trained" /\ train_ret'.partitioned
        /\ train_args' = train_args /\ data_X' = data_X /\ labels' = labels /\ obs' = obs)
       => (idx_test' = idx_test /\ idx_eval' = idx_eval /\ idx_train' = idx_train)]_vars

\* C4 witness: a repeated call after a foreign draw, with members drawn for
\* the test and for the eval partition.
C4_Witness ==
    /\ Partitioned
    /\ repeated
    /\ train_args.test_split.kind = "float"
    /\ Len(idx_test) > 0 /\ Len(idx_eval) > 0 /\ Len(idx_train) > 0

\* C9: with an empty eval or train partition train() fails with the error of
\* the empty partition and calls neither compile nor fit; with only the test
\* partition empty it warns, goes on to compile, and fits once both datasets
\* are built.
C9_EmptyPartition ==
    Partitioned =>
        /\ (Len(idx_eval) = 0 \/ Len(idx_train) = 0) =>
              /\ train_ret.status = (IF Len(idx_eval) = 0 THEN EvalEmpty ELSE TrainEmpty)
              /\ train_ret.trace = <<>>
        /\ (Len(idx_test) = 0 /\ Len(idx_eval) > 0 /\ Len(idx_train) > 0) =>
              /\ train_ret.warnings = <<TestEmpty>>
              /\ train_ret.status \notin {EvalEmpty, TrainEmpty}
              /\ Len(train_ret.trace) >= 1 /\ train_ret.trace[1] = "compile"
              /\ train_ret.reached \in {"fit", "done"} => train_ret.trace[4] = "fit"
              /\ train_ret.status = "ok" => history.set
        /\ Len(idx_test) > 0 => train_ret.warnings = <<>>

\* C9 witness: validation_split = 0 on a pool of one observation left after
\* the test partition is removed.
C9_Witness ==
    /\ Partitioned
    /\ train_args.validation_split = <<0, 1>>
    /\ Len(idx_test) > 0 /\ Len(idx_eval) = 0 /\ Len(idx_train) = 1
    /\ train_ret.status = EvalEmpty

\* a step that is a call of train() rejected for its optimizer leaves every
\* field of the estimator as it was
RejectedFrame ==
    (pc' = "trained" /\ ~foreign_draw' /\ train_ret'.reached = "optimizer") =>
        UNCHANGED <<train_hyperparam, idx_test, idx_eval, idx_train, obs_train, obs_eval,
                    obs_test, history, model>>

\* a step that is a call of train() failing on an empty partition has set
\* train_hyperparam and the three index arrays from its own arguments and left
\* the observation tables, the history and the model as they were
EmptyPartitionFrame ==
    (pc' = "trained" /\ ~foreign_draw' /\ train_ret'.status \in {EvalEmpty, TrainEmpty}) =>
        LET a == train_args'
            p == Partition(data_X.nrow, a.test_split, a.validation_split, rng)
        IN  /\ train_hyperparam'.set
            /\ train_hyperparam'.optimizer = a.optimizer
            /\ train_hyperparam'.validation_split = a.validation_split
            /\ train_hyperparam'.batch_size = a.batch_size
            /\ idx_test' = p.idx_test
            /\ idx_eval' = p.idx_eval
            /\ idx_train' = p.idx_train
            /\ UNCHANGED <<obs_train, obs_eval, obs_test, history, model>>

\* evaluate() or predict() after a call of train() that failed on an empty
\* partition ran on the observations of idx_test as that call left it
UsesFailedIdxTest ==
    (pc = "evaluated" /\ train_ret.status \in {EvalEmpty, TrainEmpty}) =>
        /\ ds_ret.status = "ok"
        /\ Len(ds_ret.elems) = Len(idx_test)
        /\ {ds_ret.elems[i].x : i \in DOMAIN ds_ret.elems}
              = {data_X.a[idx_test[i] + 1] : i \in DOMAIN idx_test}

\* C30: a call of train() rejected for an unknown optimizer changes no field
\* of the estimator; a call that fails with an empty partition has overwritten
\* train_hyperparam, idx_test, idx_eval and idx_train with its own values while
\* obs_train, obs_eval, obs_test, history and the model keep their values; and
\* evaluate() or predict() after it use the idx_test of the failed call.
C30_FailedTrainFrame ==
    /\ [][RejectedFrame /\ EmptyPartitionFrame]_vars
    /\ [](UsesFailedIdxTest)

\* C30 witness: train() succeeded, a later call failed on an empty partition
\* with another idx_test, and evaluate() ran: obs_test is still the table of
\* the earlier call while the evaluation ran on the new idx_test.
C30_Witness ==
    /\ pc = "evaluated"
    /\ train_ret.status = EvalEmpty
    /\ history.set
    /\ model = "compiled"
    /\ Len(obs_test) # Len(idx_test)
    /\ Len(idx_test) > 0
    /\ ds_ret.status = "ok"

----------------------------------------------------------------------------
(* Claims about the dataset builder.                                       *)

\* C3: eval and predict on a backed source return, for distinct requested
\* observations in any order, the source row of observation idx[i] as row i.
C3_BackedOrderRestored ==
    (pc = "done" /\ filename # "None" /\ ds_args.mode \in {"eval", "predict"}
        /\ ds_ret.status = "ok")
        => /\ Len(ds_ret.elems) = Len(Requested)
           /\ \A i \in DOMAIN Requested : ds_ret.elems[i].x = data_X.a[Requested[i] + 1]

\* the structure documented for the estimator and model type
Documented ==
    IF est_class = "celltype" THEN Triple
    ELSE IF model_type \in {"vae", "vaeiaf", "vaevamp"} THEN Nested ELSE Plain

\* C10: a mode other than the four fails with the mode error; a call that
\* returns delivers elements of the structure documented for the model family
\* (the classifier's predict with None for labels and weight), and the
\* structure declared to the stream is the one its generator yields.
C10_ModeDispatch ==
    pc = "done" =>
        /\ ds_args.mode \notin {"train", "train_val", "eval", "predict"}
              => ds_ret.status = "ValueError: mode not recognised"
        /\ ds_ret.status = "ok" =>
              \A i \in DOMAIN ds_ret.elems :
                  /\ \/ ds_ret.elems[i].struct = Documented
                     \/ /\ est_class = "celltype" /\ ds_args.mode = "predict"
                        /\ ds_ret.elems[i].struct = "(x, None, None)"
                  /\ ds_ret.kind = "dataset" => ds_ret.elems[i].struct = ds_ret.declared.struct

\* C18: evaluate(), and evaluate_any(idx=None), on an estimator that was not
\* trained (idx_test is None) and has a model run on all observations 0..N-1:
\* the call gives what evaluate_any(idx=[0, .., N-1]) gives, and when that
\* succeeds it has one element per observation; for the embedding and the
\* celltype estimator, in memory and backed.
C18_EvaluateAll ==
    (/\ model # "None"
     /\ idx_test = None
     /\ \/ pc = "evaluate"
        \/ pc = "evaluate_any" /\ arg_idx = None)
        => /\ ds_ret = Evaluate(Arange(data_X.nrow), ds_args, model)
           /\ ds_ret.status = "ok" => Len(ds_ret.elems) = data_X.nrow

\* C19: for the same idx, mode and model family, on data whose feature space
\* is the reference, the call on the backed source succeeds exactly when the
\* call on the in-memory source does, and the two deliver the same elements
\* (features, size factor or labels and weights) in the same order.
C19_PathsEquivalent ==
    (pc = "done" /\ filename # "None" /\ ds_mem.status # "none")
        => /\ (ds_mem.status = "ok") = (ds_ret.status = "ok")
           /\ ds_mem.status = "ok" => ds_ret.elems = ds_mem.elems

----------------------------------------------------------------------------
(* Claims about the streams.                                               *)

RECURSIVE Flatten(_)
Flatten(batches) ==
    IF batches = <<>> THEN <<>> ELSE Head(batches) \o Flatten(Tail(batches))

\* the positions delivered in this pass, in the order of delivery
Delivered == Flatten(it_log)

\* _get_dataset was called in the mode, on a non-empty index subset
Called(mode) == pc = "stream" /\ ds_args.mode = mode /\ Len(arg_idx) > 0

CeilDiv(n, d) == (n + d - 1) \div d

\* C22: in mode 'train_val' the call returns a stream whose iteration raises
\* nothing; a pass that has ended delivered every observation of idx exactly
\* once, the element at each position carrying the features of its
\* observation, in ceil(n / batch_size) batches of which only the last may be
\* shorter than batch_size; this holds for every pass of a restarted iterator.
C22_TrainValPass ==
    Called("train_val") =>
        /\ stream.ds.status = "ok"
        /\ it_state \in {"none", "open", "ended"}
        /\ it_state = "ended" =>
              LET n == Len(arg_idx)
              IN  /\ Len(Delivered) = n
                  /\ \A k \in 1..n : \E j \in 1..n : Delivered[j] = k
                  /\ \A k \in 1..n : stream.ds.elems[k].x = data_X.a[arg_idx[k] + 1]
                  /\ Len(it_log) = CeilDiv(n, ds_args.batch_size)
                  /\ \A i \in 1..(Len(it_log) - 1) : Len(it_log[i]) = ds_args.batch_size
        /\ Len(Delivered) <= Len(arg_idx)

\* the estimators and options on which no other defect of the builder acts:
\* the classifier on a backed source never returns a stream, and the declared
\* structure of an 'ae' stream differs under for_compute_gradients_inputs
StreamBuilt ==
    /\ ~(est_class = "celltype" /\ filename # "None")
    /\ ~(/\ est_class = "embedding" /\ filename = "None" /\ ds_args.mode = "train_val"
         /\ ~IsVae(model_type) /\ ds_args.for_compute_gradients_inputs)

\* C22 on the streams that are built
C22_BuiltStreams == StreamBuilt => C22_TrainValPass

\* C22 witness: a pass over three observations in batches of two has ended,
\* delivered in another order than the generator's
C22_Witness ==
    /\ Called("train_val")
    /\ it_state = "ended"
    /\ Len(it_log) = 2
    /\ Delivered # <<1, 2, 3>>
    /\ Len(Delivered) = 3

\* the batch delivered last has batch_size elements, the parity of the
\* deliveries being b
FullBatch(b) ==
    /\ it_state = "open"
    /\ it_tick = b
    /\ it_log # <<>>
    /\ Len(it_log[Len(it_log)]) = ds_args.batch_size

\* the observation at position k of idx is in the batch delivered last
InBatch(k) == it_state = "open" /\ it_log # <<>> /\ k \in Range(it_log[Len(it_log)])

\* C21: in mode 'train' on a non-empty partition the stream never ends:
\* batches of batch_size elements are delivered again and again (the parity
\* of the deliveries changes for ever), and with fair draws every observation
\* of the partition is in a delivered batch again and again.
C21_TrainStreamNeverEnds ==
    /\ \A b \in BOOLEAN : []<>(Called("train") => FullBatch(b))
    /\ \A k \in 1..NObs : []<>((Called("train") /\ k <= Len(arg_idx)) => InBatch(k))

\* C21 on the streams that are built
C21_BuiltStreams ==
    /\ \A b \in BOOLEAN : []<>((Called("train") /\ StreamBuilt) => FullBatch(b))
    /\ \A k \in 1..NObs :
          []<>((Called("train") /\ StreamBuilt /\ k <= Len(arg_idx)) => InBatch(k))

\* every delivery of a stream in mode 'train' is a batch of batch_size elements
C21_FullBatches ==
    (Called("train") /\ it_log # <<>>) =>
        /\ it_state = "open"
        /\ Len(it_log[Len(it_log)]) = ds_args.batch_size

\* the observations whose features the element e carries
Sources(e) == {o \in 0..(data_X.nrow - 1) : data_X.a[o + 1] = e.x}

\* np.where(idx == o): where observation o stands in idx
PositionsOf(idx, o) == {k \in DOMAIN idx : idx[k] = o}

\* the label row of observation o: one for its class, zero elsewhere
OwnLabelRow(o) ==
    [c \in 1..TypeClasses(ids) |-> IF c <= Len(ids) /\ ids[c] = labels[o + 1] THEN 1 ELSE 0]

\* the element e of a stream over the partition part is computed from one
\* observation of part alone, features, label row and weight
FromPartition(e, part) ==
    /\ Cardinality(Sources(e)) = 1
    /\ \A o \in Sources(e) :
          /\ o \in Range(part)
          /\ o \notin Range(idx_test)
          /\ est_class = "celltype" =>
                /\ e.y = OwnLabelRow(o)
                /\ \A k \in PositionsOf(part, o) :
                      e.w = GetCelltypeOut(labels, ids, ontology, max_class_weight, part).weights[k]

\* C27: every element that the train stream of train() delivers is computed
\* from an observation of idx_train, every element of the validation stream
\* from an observation of idx_eval, none from an observation of idx_test, and
\* the features, the label row and the weight of a classifier element belong
\* to one and the same observation.
C27_NoPartitionLeakage ==
    (pc = "fit" /\ it_log # <<>>) =>
        \A i \in DOMAIN Delivered :
            FromPartition(stream.ds.elems[Delivered[i]],
                          IF stream.mode = "train" THEN idx_train ELSE idx_eval)

\* C27 witness: the classifier's train stream over two observations
\* delivered a batch, a test partition being set apart.
C27_Witness ==
    /\ pc = "fit"
    /\ est_class = "celltype"
    /\ stream.mode = "train"
    /\ Len(idx_train) = 2
    /\ Len(idx_test) > 0
    /\ Len(Delivered) = 2
    /\ stream.ds.elems[1].x # stream.ds.elems[2].x

\* C27 second witness: the validation stream of an embedding estimator on a
\* backed source delivered a batch.
C27_WitnessBacked ==
    /\ pc = "fit"
    /\ est_class = "embedding"
    /\ filename # "None"
    /\ stream.mode = "train_val"
    /\ Len(Delivered) > 0

----------------------------------------------------------------------------
(* Claims about fit().                                                     *)

\* what train() computes for the steps, written out from the arguments
StepsPerEpoch ==
    Min(Max(fit_run.n_train \div fit_run.batch_size, 1), fit_run.max_steps_per_epoch)
ValidationSteps ==
    Min(Max(fit_run.n_eval \div fit_run.validation_batch_size, 1), fit_run.max_validation_steps)

\* the bounds on a run of fit() that was entered
FitBounded ==
    fit_run.state # "none" =>
        /\ fit_run.steps_per_epoch = StepsPerEpoch
        /\ fit_run.validation_steps = ValidationSteps
        /\ 1 <= StepsPerEpoch /\ StepsPerEpoch <= fit_run.max_steps_per_epoch
        /\ fit_run.pulled <= fit_run.epochs * StepsPerEpoch
        /\ fit_run.pulled <= fit_run.epoch * StepsPerEpoch + fit_run.step
        /\ fit_run.vpulled <= ValidationSteps
        /\ fit_run.epoch <= fit_run.epochs
        /\ fit_run.state # "ran out of data"
        /\ fit_run.state # "returned" => fit_run.wait < fit_run.patience
        /\ fit_run.state = "returned" =>
              \/ fit_run.epoch = fit_run.epochs
              \/ fit_run.wait = fit_run.patience

\* C23: train() terminates although the train stream is infinite: fit()
\* returns; it pulls at most epochs x steps_per_epoch training batches with
\* steps_per_epoch = min(max(|idx_train| div batch_size, 1), max_steps_per_epoch)
\* between 1 and max_steps_per_epoch, and per epoch at most
\* min(max(|idx_eval| div validation_batch_size, 1), max_validation_steps)
\* validation batches; it has returned once validation loss did not improve
\* for `patience` epochs in a row.
C23_TrainTerminates ==
    /\ <>(fit_run.state = "returned")
    /\ [](FitBounded)

\* C23 witness: fit() returned before the last epoch, for the patience, having
\* run more than one epoch with a cap on the steps that was in force.
C23_Witness ==
    /\ fit_run.state = "returned"
    /\ fit_run.epoch < fit_run.epochs
    /\ fit_run.epoch > 1
    /\ fit_run.wait = fit_run.patience
    /\ fit_run.n_train \div fit_run.batch_size > fit_run.max_steps_per_epoch
    /\ fit_run.pulled = fit_run.epoch * fit_run.max_steps_per_epoch

----------------------------------------------------------------------------
(* Claims about pretrained weights.                                        *)

\* the last call was load_pretrained_weights
Loaded == w_ret.op = "load_pretrained_weights"

\* the last call loaded nothing into the model
NoLoad ==
    /\ \A i \in DOMAIN w_ret.trace : w_ret.trace[i].op # "load"
    /\ model_weights = w_ret.weights

\* C14: load_pretrained_weights loads a file into the model only if the MD5
\* digest of that file equals the checksum supplied: every load, of the .h5 as
\* of the sharded file, comes right after the digest check of the file it
\* loads; when a digest differs from the checksum (no checksum supplied
\* included) the call fails with the md5 ValueError and the weights of the
\* model are what they were.
C14_ChecksumBeforeLoad ==
    Loaded =>
        LET tr == w_ret.trace
        IN  /\ \A i \in DOMAIN tr : tr[i].op = "load" =>
                  /\ i > 1
                  /\ tr[i - 1].op = "md5"
                  /\ tr[i - 1].arg \in {tr[i].arg, tr[i].arg \o Shard}
                  /\ Digest(fs, tr[i - 1].arg) = md5
                  /\ model_weights = Digest(fs, tr[i - 1].arg)
            /\ model_weights # w_ret.weights => \E i \in DOMAIN tr : tr[i].op = "load"
            /\ \A i \in DOMAIN tr : (tr[i].op = "md5" /\ Digest(fs, tr[i].arg) # md5) =>
                  /\ w_ret.status = Md5Error
                  /\ NoLoad

\* C14 witness: an initialised model, no checksum supplied, a sharded weights
\* file found: the call failed on the digest check.
C14_Witness ==
    /\ Loaded
    /\ model = "initialised"
    /\ md5 = "None"
    /\ w_ret.status = Md5Error
    /\ w_ret.trace # <<>>
    /\ w_ret.trace[1].op = "md5"
    /\ w_ret.trace[1].arg[Len(w_ret.trace[1].arg)] = Shard[1]

\* the fetches of the last call, in order
Fetches == SelectSeq(w_ret.trace, LAMBDA st : st.op = "fetch")

\* the .h5 URL is fetched first, the sharded URL only after the .h5 fetch
\* failed, and no URL twice
FetchOrder ==
    LET f == Fetches
    IN  /\ f # <<>>
        /\ f[1].arg[Len(f[1].arg)] = H5[1]
        /\ Len(f) <= 2
        /\ Len(f) = 2 => /\ f[2].arg[Len(f[2].arg)] = Shard[1]
                         /\ f[1].out \in FetchErrors

\* C15 as stated: for a remote model_dir the .h5 URL is fetched first, the
\* sharded URL only if the .h5 fetch failed, no URL is fetched twice, and when
\* both fetches failed, whatever the failure, the call raises the
\* FileNotFoundError and loads nothing, a stale file in the cache included.
C15_Original ==
    (Loaded /\ StartsWithHttp(dir_given)) =>
        /\ FetchOrder
        /\ (Len(Fetches) = 2 /\ Fetches[2].out \in FetchErrors) =>
              /\ w_ret.status = "FileNotFoundError: cannot find remote weightsfile"
              /\ NoLoad

\* C15 amended: for a remote model_dir the .h5 URL is fetched first, the
\* sharded URL only if the .h5 fetch failed with an HTTP error, no URL is
\* fetched twice; when both fetches failed with an HTTP error the call raises
\* the FileNotFoundError; a fetch that fails otherwise ends the call with its
\* own error; in both cases nothing is loaded, a stale file in the cache
\* included.
C15_RemoteFallback ==
    (Loaded /\ StartsWithHttp(dir_given)) =>
        LET f == Fetches
        IN  /\ FetchOrder
            /\ Len(f) = 2 => f[1].out = "HTTPError"
            /\ (Len(f) = 2 /\ f[2].out = "HTTPError") =>
                  /\ w_ret.status = "FileNotFoundError: cannot find remote weightsfile"
                  /\ NoLoad
            /\ f[Len(f)].out = "URLError" =>
                  /\ w_ret.status = "URLError"
                  /\ NoLoad

\* C15 witness: both URLs answer with an HTTP error while the cache holds a
\* stale .h5 file whose digest is the checksum supplied, the model initialised:
\* the call raised the FileNotFoundError.
C15_Witness ==
    /\ Loaded
    /\ StartsWithHttp(dir_given)
    /\ model = "initialised"
    /\ Len(Fetches) = 2
    /\ Fetches[1].out = "HTTPError"
    /\ Fetches[2].out = "HTTPError"
    /\ Exists(fs, cache_path \o model_id \o WeightsName \o H5)
    /\ Digest(fs, cache_path \o model_id \o WeightsName \o H5) = md5
    /\ w_ret.status = "FileNotFoundError: cannot find remote weightsfile"

\* the entries of the cache directory <cache_path>/weights/
CacheEntries(files) == {f \in files : InDir(f, CacheDir(cache_path))}

\* C16: after init_model with clear_weight_cache=True the directory
\* <cache_path>/weights/ holds no file, whichever model id wrote it; with
\* clear_weight_cache=False the files are what they were; and a
\* load_weights_from_cache succeeds only if save_weights_to_cache ran after the
\* most recent clearing init_model, the weights loaded being those of the file.
C16_CacheLifecycle ==
    /\ (w_ret.op = "init_model" /\ w_ret.clear) =>
          /\ CacheEntries(fs) = {}
          /\ fs = w_ret.fs \ CacheEntries(w_ret.fs)
    /\ (w_ret.op = "init_model" /\ ~w_ret.clear) => fs = w_ret.fs
    /\ (w_ret.op = "load_weights_from_cache" /\ w_ret.status = "ok") =>
          /\ saved
          /\ model_weights = Digest(fs, CacheFn(cache_path, model_id))
    /\ saved => Exists(fs, CacheFn(cache_path, model_id))

\* C16 witness: init_model with clearing ran while the cache directory held the
\* estimator's own cache file and the one of another model id.
C16_Witness ==
    /\ w_ret.op = "init_model"
    /\ w_ret.clear
    /\ w_ret.status = "ok"
    /\ Exists(w_ret.fs, CacheFn(cache_path, model_id))
    /\ Exists(w_ret.fs, CacheFn(cache_path, <<"m2">>))
    /\ ~Exists(fs, CacheFn(cache_path, <<"m2">>))

\* the last call was init_model(clear_weight_cache=True) on an estimator
\* whose model type its class does not know
ClearingInitFailed ==
    /\ w_ret.op = "init_model"
    /\ w_ret.clear
    /\ w_ret.status = "ValueError: unknown model type"

\* C29: a call init_model(clear_weight_cache=True) that fails on the model
\* type has removed every file of <cache_path>/weights/, has left every other
\* file, and has left self.model and its weights as they were.
C29_ClearedBeforeValidation ==
    [][ClearingInitFailed' =>
            /\ CacheEntries(fs') = {}
            /\ fs' = fs \ CacheEntries(fs)
            /\ model' = model
            /\ model_weights' = model_weights]_vars

\* C29 witness: the failing call found files in the cache directory and a
\* file outside it, and only the latter is left.
C29_Witness ==
    /\ ClearingInitFailed
    /\ CacheEntries(w_ret.fs) # {}
    /\ fs # {}
    /\ ~KnownType(est_class, model_type)

\* C17: for a local model_dir the weights are looked up at
\* <model_dir>/<model_id>_weights followed by the extension, with exactly one
\* separator between model_dir and model_id, whether or not model_dir ends
\* with a separator, and on every repeated call.
C17_LocalPath ==
    (Loaded /\ ~StartsWithHttp(dir_given) /\ dir_given # <<>>) =>
        w_ret.fn = DocumentedFn(dir_given, model_id)

============================================================================
